---- MODULE Spec2Model ----
(***************************************************************************)
(* santree dashboard: the reducer-driven state machine, the interaction    *)
(* router (keyboard), the asynchronous workflows it starts, and the        *)
(* scroll/layout row mapping.                                              *)
(*                                                                         *)
(* Indices (selectedIndex, flat indices, list rows) are 0-based as in the  *)
(* source; TLA+ sequences are 1-based, so element i of an array a is       *)
(* a[i + 1].                                                               *)
(***************************************************************************)
EXTENDS Integers, Sequences, FiniteSets, Bags, TLC

VARIABLES
    state,        \* the DashboardState held by useReducer
    tasks,        \* bag of asynchronous workflows / timers in flight
    repoRootRef,  \* repoRootRef.current is set
    inTmux,       \* isInTmux() of this process
    exited,       \* exit() was called
    lay,          \* inputs and results of the pure helpers (layout, message)
    draggingRef,  \* draggingRef.current
    leftWidth,    \* the leftWidth state (width of the list pane)
    termSize,     \* the termSize state: [columns, rows]
    terminal      \* the private modes of the terminal set through stdout

vars == <<state, tasks, repoRootRef, inTmux, exited, lay, draggingRef, leftWidth, termSize,
          terminal>>

NULL == "null"

\* ---------------------------------------------------------------- bounds
MaxGroups == 2
MaxStatus == 2
MaxIssues == 2

\* ------------------------------------------------------- scroll helpers
\* A project group is [name, statusGroups]; a status group is [type, issues].

RECURSIVE RowIssues(_, _, _, _, _)
\* inner loop of getRowIndexForFlatIndex: for (i = 0; i < sg.issues.length; i++)
RowIssues(n, i, row, issuesSeen, flatIndex) ==
    IF i >= n THEN [ret |-> FALSE, row |-> row, issuesSeen |-> issuesSeen]
    ELSE IF issuesSeen = flatIndex THEN [ret |-> TRUE, row |-> row, issuesSeen |-> issuesSeen]
    ELSE RowIssues(n, i + 1, row + 1, issuesSeen + 1, flatIndex)

RECURSIVE RowStatus(_, _, _, _, _)
\* for (const sg of g.statusGroups) { row++; ... }
RowStatus(sgs, j, row, issuesSeen, flatIndex) ==
    IF j > Len(sgs) THEN [ret |-> FALSE, row |-> row, issuesSeen |-> issuesSeen]
    ELSE LET r == RowIssues(Len(sgs[j].issues), 0, row + 1, issuesSeen, flatIndex)
         IN  IF r.ret THEN r
             ELSE RowStatus(sgs, j + 1, r.row, r.issuesSeen, flatIndex)

RECURSIVE RowGroups(_, _, _, _, _)
\* for (const g of groups) { row++; ... }
RowGroups(groups, k, row, issuesSeen, flatIndex) ==
    IF k > Len(groups) THEN [ret |-> FALSE, row |-> row, issuesSeen |-> issuesSeen]
    ELSE LET r == RowStatus(groups[k].statusGroups, 1, row + 1, issuesSeen, flatIndex)
         IN  IF r.ret THEN r
             ELSE RowGroups(groups, k + 1, r.row, r.issuesSeen, flatIndex)

getRowIndexForFlatIndex(groups, flatIndex) ==
    LET r == RowGroups(groups, 1, 1, 0, flatIndex)
    IN  IF r.ret THEN r.row ELSE 0

\* the null returned by getFlatIndexForListRow (number | null)
NoIndex == -1

RECURSIVE FlatIssues(_, _, _, _, _)
\* inner loop of getFlatIndexForListRow; val is the returned value (NoIndex or an index)
FlatIssues(n, i, row, issuesSeen, listRow) ==
    IF i >= n THEN [ret |-> FALSE, val |-> NoIndex, row |-> row, issuesSeen |-> issuesSeen]
    ELSE IF row = listRow
         THEN [ret |-> TRUE, val |-> issuesSeen, row |-> row, issuesSeen |-> issuesSeen]
    ELSE FlatIssues(n, i + 1, row + 1, issuesSeen + 1, listRow)

RECURSIVE FlatStatusSelectable(_, _, _, _, _)
\* variant in which a status header row selects the issue below it
FlatStatusSelectable(sgs, j, row, issuesSeen, listRow) ==
    IF j > Len(sgs) THEN [ret |-> FALSE, val |-> NoIndex, row |-> row, issuesSeen |-> issuesSeen]
    ELSE IF row = listRow
         THEN [ret |-> TRUE, val |-> issuesSeen, row |-> row, issuesSeen |-> issuesSeen]
    ELSE LET r == FlatIssues(Len(sgs[j].issues), 0, row + 1, issuesSeen, listRow)
         IN  IF r.ret THEN r
             ELSE FlatStatusSelectable(sgs, j + 1, r.row, r.issuesSeen, listRow)

RECURSIVE FlatStatus(_, _, _, _, _)
FlatStatus(sgs, j, row, issuesSeen, listRow) ==
    IF j > Len(sgs) THEN [ret |-> FALSE, val |-> NoIndex, row |-> row, issuesSeen |-> issuesSeen]
    ELSE IF row = listRow   \* status header row
         THEN [ret |-> TRUE, val |-> NoIndex, row |-> row, issuesSeen |-> issuesSeen]
    ELSE LET r == FlatIssues(Len(sgs[j].issues), 0, row + 1, issuesSeen, listRow)
         IN  IF r.ret THEN r
             ELSE FlatStatus(sgs, j + 1, r.row, r.issuesSeen, listRow)

RECURSIVE FlatGroups(_, _, _, _, _)
FlatGroups(groups, k, row, issuesSeen, listRow) ==
    IF k > Len(groups) THEN [ret |-> FALSE, val |-> NoIndex, row |-> row, issuesSeen |-> issuesSeen]
    ELSE IF row = listRow   \* project header row
         THEN [ret |-> TRUE, val |-> NoIndex, row |-> row, issuesSeen |-> issuesSeen]
    ELSE LET r == FlatStatus(groups[k].statusGroups, 1, row + 1, issuesSeen, listRow)
         IN  IF r.ret THEN r
             ELSE FlatGroups(groups, k + 1, r.row, r.issuesSeen, listRow)

\* off-by-one variant: the walk starts at row 0, forgetting the column header row
getFlatIndexForListRowNoHeader(groups, listRow) ==
    IF listRow = 0 THEN NoIndex
    ELSE FlatGroups(groups, 1, 0, 0, listRow).val

getFlatIndexForListRow(groups, listRow) ==
    IF listRow = 0 THEN NoIndex   \* column header row
    ELSE FlatGroups(groups, 1, 1, 0, listRow).val

\* groups.flatMap((g) => g.statusGroups.flatMap((sg) => sg.issues))
RECURSIVE FlatMapStatus(_, _)
FlatMapStatus(sgs, j) ==
    IF j > Len(sgs) THEN <<>> ELSE sgs[j].issues \o FlatMapStatus(sgs, j + 1)

RECURSIVE FlatMapGroups(_, _)
FlatMapGroups(groups, k) ==
    IF k > Len(groups) THEN <<>>
    ELSE FlatMapStatus(groups[k].statusGroups, 1) \o FlatMapGroups(groups, k + 1)

\* a flattening that walks the groups from the last issue to the first
flattenReversed(groups) ==
    LET f == FlatMapGroups(groups, 1) IN [i \in 1..Len(f) |-> f[Len(f) + 1 - i]]

flatten(groups) == FlatMapGroups(groups, 1)


\* ------------------------------------------------------------ the data
Tickets == {"T1", "T2"}

\* WorktreeInfo.path / WorktreeInfo.branch of the worktree of a ticket
PathOf(t) == IF t = "T1" THEN "wt/T1" ELSE "wt/T2"
BranchOf(t) == IF t = "T1" THEN "feature/T1" ELSE "feature/T2"

\* A DashboardIssue. worktree / pr say whether the field is non-null; dirty and
\* sessionId (non-null) are fields of the worktree.
Issue(id, wt, dirty, sess, pr) ==
    [identifier |-> id, worktree |-> wt, dirty |-> dirty, sessionId |-> sess, pr |-> pr]

SG(type, issues) == [type |-> type, issues |-> issues]
PG(name, sgs) == [name |-> name, statusGroups |-> sgs]

\* Results loadDashboardData can resolve with: { groups, flatIssues }.
\*   DataBoth:  T1 (dirty worktree, no PR) and T2 (no worktree), one project
\*   DataSwap:  T2 (clean worktree, session, PR) before T1, two projects
\*   DataOnly2: T2 alone (no worktree)
\*   DataNone:  no issue and no worktree
DataBoth ==
    << PG("P", << SG("started",   << Issue("T1", TRUE, TRUE, FALSE, FALSE) >>),
                  SG("unstarted", << Issue("T2", FALSE, FALSE, FALSE, FALSE) >>) >>) >>
DataSwap ==
    << PG("P", << SG("started",   << Issue("T2", TRUE, FALSE, TRUE, TRUE) >>) >>),
       PG("Q", << SG("backlog",   << Issue("T1", TRUE, TRUE, FALSE, FALSE) >>) >>) >>
DataOnly2 ==
    << PG("P", << SG("unstarted", << Issue("T2", FALSE, FALSE, FALSE, FALSE) >>) >>) >>
DataNone == <<>>

Data(G) == { [groups |-> g, flatIssues |-> flatten(g)] : g \in G }

DataSets == Data({DataNone, DataBoth, DataSwap, DataOnly2})

\* ------------------------------------------------------------ strings
\* A string is a sequence of tokens; "[", "]" and " " are single characters.
Prefix(t) == <<"[", t, "]", " ">>      \* `[${ticketId}] `
Bracketed(t) == <<"[", t, "]">>        \* `[${ticketId}]`

RECURSIVE TrimStart(_)
TrimStart(v) == IF v # <<>> /\ Head(v) = " " THEN TrimStart(Tail(v)) ELSE v

RECURSIVE TrimEnd(_)
TrimEnd(v) ==
    IF v # <<>> /\ v[Len(v)] = " " THEN TrimEnd(SubSeq(v, 1, Len(v) - 1)) ELSE v

\* String.prototype.trim
Trim(v) == TrimEnd(TrimStart(v))

\* String.prototype.includes
Includes(v, w) ==
    \E i \in 1..(Len(v) - Len(w) + 1) : SubSeq(v, i, i + Len(w) - 1) = w

\* --------------------------------------------------------- the reducer
initialState ==
    [ groups |-> <<>>, flatIssues |-> <<>>, selectedIndex |-> 0,
      listScrollOffset |-> 0, detailScrollOffset |-> 0,
      loading |-> TRUE, refreshing |-> FALSE, error |-> NULL,
      overlay |-> NULL, actionMessage |-> NULL,
      creatingForTicket |-> NULL, creationLogs |-> 0, creationError |-> NULL,
      deletingForTicket |-> NULL,
      commitPhase |-> "idle", commitMessage |-> <<>>, commitError |-> NULL,
      commitTicketId |-> NULL, commitWorktreePath |-> NULL, commitBranch |-> NULL,
      commitGitStatus |-> "",
      prCreatePhase |-> "idle", prCreateTicketId |-> NULL,
      prCreateWorktreePath |-> NULL, prCreateBranch |-> NULL,
      prCreateError |-> NULL, prCreateUrl |-> NULL,
      setupMode |-> NULL ]

\* state.flatIssues[i] for a 0-based i: defined exactly when 0 <= i < length
HasIssue(flat, i) == 0 <= i /\ i < Len(flat)

\* action.flatIssues.findIndex((d) => d.issue.identifier === prevId)
findIndex(flat, id) ==
    IF \E n \in 1..Len(flat) : flat[n].identifier = id
    THEN (CHOOSE n \in 1..Len(flat) :
              /\ flat[n].identifier = id
              /\ \A m \in 1..(n - 1) : flat[m].identifier # id) - 1
    ELSE -1

\* SETUP_CONFIRM_SHOW / SETUP_CONFIRM_DONE: dispatched by dashboard.tsx, reduced
\* by a reducer case that opens / closes the confirm-setup overlay.
reducerSetupConfirm(s, a) ==
    CASE a.type = "SETUP_CONFIRM_SHOW" ->
            [s EXCEPT !.overlay = "confirm-setup", !.setupMode = a.mode]
      [] a.type = "SETUP_CONFIRM_DONE" ->
            [s EXCEPT !.overlay = NULL, !.setupMode = NULL]
      [] OTHER -> s

\* SET_DATA that keeps the raw index instead of re-locating the identifier
reducerSetDataKeepIndex(s, a) ==
    [s EXCEPT !.groups = a.groups, !.flatIssues = a.flatIssues,
              !.loading = FALSE, !.refreshing = FALSE, !.error = NULL,
              !.detailScrollOffset = 0]

\* SET_DATA that drops the data of a refresh another one has superseded
reducerSetDataFirstWins(s, a) ==
    IF ~s.loading /\ ~s.refreshing /\ s.error = NULL THEN s
    ELSE [s EXCEPT !.groups = a.groups, !.flatIssues = a.flatIssues,
                   !.selectedIndex = 0,
                   !.loading = FALSE, !.refreshing = FALSE, !.error = NULL,
                   !.detailScrollOffset = 0]

reducerSetData(s, a) ==
    LET prevId == IF HasIssue(s.flatIssues, s.selectedIndex)
                  THEN s.flatIssues[s.selectedIndex + 1].identifier
                  ELSE NULL
        found == IF prevId # NULL THEN findIndex(a.flatIssues, prevId) ELSE -1
        newIndex == IF found >= 0 THEN found ELSE 0
    IN  [s EXCEPT !.groups = a.groups, !.flatIssues = a.flatIssues,
                  !.selectedIndex = newIndex,
                  !.loading = FALSE, !.refreshing = FALSE, !.error = NULL,
                  !.detailScrollOffset = 0]

\* COMMIT_CANCEL that forgets to reset the staged-status snapshot
reducerCommitCancelLeak(s) ==
    [s EXCEPT !.overlay = NULL, !.commitPhase = "idle", !.commitMessage = <<>>,
              !.commitError = NULL, !.commitTicketId = NULL,
              !.commitWorktreePath = NULL, !.commitBranch = NULL]

reducerCommitCancel(s) ==
    [s EXCEPT !.overlay = NULL, !.commitPhase = "idle", !.commitMessage = <<>>,
              !.commitError = NULL, !.commitTicketId = NULL,
              !.commitWorktreePath = NULL, !.commitBranch = NULL,
              !.commitGitStatus = ""]

reducerPrCreateCancel(s) ==
    [s EXCEPT !.overlay = NULL, !.prCreatePhase = "idle", !.prCreateTicketId = NULL,
              !.prCreateWorktreePath = NULL, !.prCreateBranch = NULL,
              !.prCreateError = NULL, !.prCreateUrl = NULL]

\* SET_OVERLAY that also resets the overlay-local fields when closing
reducerSetOverlayClearing(s, a) ==
    IF a.overlay = NULL
    THEN [reducerPrCreateCancel(reducerCommitCancel(s)) EXCEPT !.overlay = NULL]
    ELSE [s EXCEPT !.overlay = a.overlay]

reducerSetOverlay(s, a) == [s EXCEPT !.overlay = a.overlay]

\* SELECT that keeps the detail scroll
reducerSelectKeepScroll(s, a) == [s EXCEPT !.selectedIndex = a.index]

reducerSelect(s, a) == [s EXCEPT !.selectedIndex = a.index, !.detailScrollOffset = 0]

\* Math.max(0, x) without the clamp
noClamp(a, b) == b

reducer(s, a) ==
    CASE a.type = "SET_DATA" -> reducerSetData(s, a)
      [] a.type = "SELECT" -> reducerSelect(s, a)
      [] a.type = "SCROLL_LIST" -> [s EXCEPT !.listScrollOffset = a.offset]
      [] a.type = "SCROLL_DETAIL" -> [s EXCEPT !.detailScrollOffset = a.offset]
      [] a.type = "REFRESH_START" -> [s EXCEPT !.refreshing = TRUE]
      [] a.type = "REFRESH_DONE" -> [s EXCEPT !.refreshing = FALSE]
      [] a.type = "SET_ERROR" ->
            [s EXCEPT !.error = a.error, !.loading = FALSE, !.refreshing = FALSE]
      [] a.type = "SET_OVERLAY" -> reducerSetOverlay(s, a)
      [] a.type = "SET_ACTION_MESSAGE" -> [s EXCEPT !.actionMessage = a.message]
      [] a.type = "CLEAR_ERROR" -> [s EXCEPT !.error = NULL]
      [] a.type = "CREATION_START" ->
            [s EXCEPT !.creatingForTicket = a.ticketId, !.creationLogs = 0,
                      !.creationError = NULL]
      [] a.type = "CREATION_LOG" -> [s EXCEPT !.creationLogs = 1]
      [] a.type = "CREATION_DONE" ->
            [s EXCEPT !.creatingForTicket = NULL, !.creationLogs = 0,
                      !.creationError = NULL]
      [] a.type = "CREATION_ERROR" ->
            [s EXCEPT !.creationError = a.error, !.creatingForTicket = NULL,
                      !.creationLogs = 0]
      [] a.type = "DELETE_START" -> [s EXCEPT !.deletingForTicket = a.ticketId]
      [] a.type = "DELETE_DONE" -> [s EXCEPT !.deletingForTicket = NULL]
      [] a.type = "COMMIT_START" ->
            [s EXCEPT !.overlay = "commit", !.commitPhase = "confirm-stage",
                      !.commitMessage = <<>>, !.commitError = NULL,
                      !.commitTicketId = a.ticketId,
                      !.commitWorktreePath = a.worktreePath,
                      !.commitBranch = a.branch, !.commitGitStatus = a.gitStatus]
      [] a.type = "COMMIT_PHASE" -> [s EXCEPT !.commitPhase = a.phase]
      [] a.type = "COMMIT_MESSAGE" -> [s EXCEPT !.commitMessage = a.message]
      [] a.type = "COMMIT_ERROR" ->
            [s EXCEPT !.commitPhase = "error", !.commitError = a.error]
      [] a.type = "COMMIT_DONE" -> [s EXCEPT !.commitPhase = "done"]
      [] a.type = "COMMIT_CANCEL" -> reducerCommitCancel(s)
      [] a.type = "PR_CREATE_START" ->
            [s EXCEPT !.overlay = "pr-create", !.prCreatePhase = "choose-mode",
                      !.prCreateTicketId = a.ticketId,
                      !.prCreateWorktreePath = a.worktreePath,
                      !.prCreateBranch = a.branch,
                      !.prCreateError = NULL, !.prCreateUrl = NULL]
      [] a.type = "PR_CREATE_PHASE" -> [s EXCEPT !.prCreatePhase = a.phase]
      [] a.type = "PR_CREATE_ERROR" ->
            [s EXCEPT !.prCreatePhase = "error", !.prCreateError = a.error]
      [] a.type = "PR_CREATE_DONE" ->
            [s EXCEPT !.prCreatePhase = "done", !.prCreateUrl = a.url]
      [] a.type = "PR_CREATE_CANCEL" -> reducerPrCreateCancel(s)
      [] OTHER -> reducerSetupConfirm(s, a)

\* the state after dispatching the actions of acts in order
RECURSIVE Reduce(_, _)
Reduce(s, acts) == IF acts = <<>> THEN s ELSE Reduce(reducer(s, Head(acts)), Tail(acts))

\* the action types of acts, in dispatch order


\* ---------------------------------------------------- tasks and outcomes
MaxTasks == 2
MaxDetailScroll == 3

\* An asynchronous workflow suspended at an await, or a pending setTimeout.
\*   k: the workflow; pc: the await it is suspended at; t: the ticket it captured;
\*   flag: the captured argument that decides what it does next (isInitial,
\*   runSetup, fill, force).
Task(k, pc, t, flag) == [k |-> k, pc |-> pc, t |-> t, flag |-> flag]

Timer(pc) == Task("timer", pc, NULL, FALSE)

\* What one run of a handler does: the reducer actions it dispatches in order,
\* the workflows / timers it leaves pending, the external commands it invokes,
\* whether it sets repoRootRef, and how it ends the process ("no", "exit", "crash").
Out(acts, spawn, calls, root, fin) ==
    [acts |-> acts, spawn |-> spawn, calls |-> calls, root |-> root, fin |-> fin]

Nothing == Out(<<>>, <<>>, <<>>, FALSE, "no")
Dispatch(acts) == Out(acts, <<>>, <<>>, FALSE, "no")

\* o1 followed by o2 in the same handler run
Then(o1, o2) ==
    IF o1.fin # "no" THEN o1
    ELSE Out(o1.acts \o o2.acts, o1.spawn \o o2.spawn, o1.calls \o o2.calls,
             o1.root \/ o2.root, o2.fin)

\* The action messages, by what they tell: a failure, or anything else.
Failed == "Failed"
Info == "Info"

SetMsg(m) == [type |-> "SET_ACTION_MESSAGE", message |-> m]
SetOverlay(ov) == [type |-> "SET_OVERLAY", overlay |-> ov]
Select(i) == [type |-> "SELECT", index |-> i]
Log == [type |-> "CREATION_LOG"]
CommitPhase(ph) == [type |-> "COMMIT_PHASE", phase |-> ph]
CommitError(e) == [type |-> "COMMIT_ERROR", error |-> e]
PrPhase(ph) == [type |-> "PR_CREATE_PHASE", phase |-> ph]
PrError(e) == [type |-> "PR_CREATE_ERROR", error |-> e]

\* a minimum that never caps
noCap(a, b) == a

Min(a, b) == IF a < b THEN a ELSE b
Max(a, b) == IF a > b THEN a ELSE b

\* leaveAltScreen(); console.log(...); exit()
ExitToShell == Out(<<>>, <<>>, <<"leaveAltScreen">>, FALSE, "exit")

\* ------------------------------------------------------------ terminal
\* The private modes written to stdout: ?1049 (alternate screen), ?25 (cursor,
\* hidden by the l form) and ?1002/?1006 (mouse reporting).
Terminal(altScreen, cursorHidden, mouse) ==
    [altScreen |-> altScreen, cursorHidden |-> cursorHidden, mouse |-> mouse]

\* after ensureAltScreen() and the mount effect
mounted == Terminal(TRUE, TRUE, TRUE)

\* leaveAltScreen()
leaveAltScreen(t) == [t EXCEPT !.altScreen = FALSE, !.cursorHidden = FALSE]

\* the cleanup of the mount effect
effectCleanup(t) == leaveAltScreen([t EXCEPT !.mouse = FALSE])

\* the terminal after the calls of a handler
written(t, calls) ==
    IF \E i \in 1..Len(calls) : calls[i] = "leaveAltScreen" THEN leaveAltScreen(t) ELSE t

\* How the process ends. exit() unmounts the component, which runs the effect
\* cleanup. An exception that leaves a handler, or a signal, ends the process
\* with no handler of the dashboard in between: the effect cleanup runs only if
\* the runtime still unmounts the component.
processEnd(fin, t) ==
    CASE fin = "no" -> {t}
      [] fin = "exit" -> {effectCleanup(t)}
      [] OTHER -> {t, effectCleanup(t)}

\* ------------------------------------------------------------- refresh
\* refresh(isInitial); found: findMainRepoRoot() returns a root
refresh(isInitial, root, found) ==
    LET start == IF ~isInitial THEN <<[type |-> "REFRESH_START"]>> ELSE <<>>
    IN  IF ~(root \/ found)
        THEN Dispatch(start \o <<[type |-> "SET_ERROR", error |-> "Not inside a git repository"]>>)
        ELSE Out(start, <<Task("refresh", "load", NULL, isInitial)>>,
                 <<"loadDashboardData">>, TRUE, "no")

\* ------------------------------------------------------------ workflows
\* launchWorkInTmux; ok: the tmux commands succeed
launchWorkInTmux(di, ok) ==
    Out(<<SetMsg(IF ok THEN Info ELSE Failed)>>,
        <<Timer("refresh")>>, <<"tmux">>, FALSE, "no")

\* launchAfterCreation
launchAfterCreation(tmux, ok) ==
    IF tmux
    THEN Out(<<SetMsg(IF ok THEN Info
                             ELSE Failed)>>,
             <<Timer("refresh")>>, <<"tmux">>, FALSE, "no")
    ELSE ExitToShell

\* createAndLaunch without its guard against concurrent creation
createAndLaunchUnguarded(s, root, mode, runSetup) ==
    IF ~HasIssue(s.flatIssues, s.selectedIndex) THEN Nothing
    ELSE IF ~root THEN Nothing
    ELSE LET ticketId == s.flatIssues[s.selectedIndex + 1].identifier
         IN  Out(<<[type |-> "CREATION_START", ticketId |-> ticketId], Log>>,
                 <<Task("create", "fetch", ticketId, runSetup)>>,
                 <<"git fetch">>, FALSE, "no")

\* createAndLaunch, up to its first await
createAndLaunch(s, root, mode, runSetup) ==
    IF ~HasIssue(s.flatIssues, s.selectedIndex) THEN Nothing
    ELSE IF ~root THEN Nothing
    ELSE IF s.creatingForTicket # NULL THEN Nothing
    ELSE LET ticketId == s.flatIssues[s.selectedIndex + 1].identifier
         IN  Out(<<[type |-> "CREATION_START", ticketId |-> ticketId], Log>>,
                 <<Task("create", "fetch", ticketId, runSetup)>>,
                 <<"git fetch">>, FALSE, "no")

\* doWork that creates the worktree at once, init script or not
doWorkNoAsk(s, root, tmux, mode, hasInit, ok) ==
    IF ~HasIssue(s.flatIssues, s.selectedIndex) THEN Nothing
    ELSE IF ~root THEN Nothing
    ELSE LET di == s.flatIssues[s.selectedIndex + 1]
             close == Dispatch(<<SetOverlay(NULL)>>)
         IN  IF di.worktree
             THEN IF tmux THEN Then(close, launchWorkInTmux(di, ok))
                  ELSE Then(close, ExitToShell)
             ELSE Then(close, createAndLaunch(s, root, mode, FALSE))

\* doWork; hasInit: hasInitScript(repoRoot)
doWork(s, root, tmux, mode, hasInit, ok) ==
    IF ~HasIssue(s.flatIssues, s.selectedIndex) THEN Nothing
    ELSE IF ~root THEN Nothing
    ELSE LET di == s.flatIssues[s.selectedIndex + 1]
             close == Dispatch(<<SetOverlay(NULL)>>)
         IN  IF di.worktree
             THEN IF tmux THEN Then(close, launchWorkInTmux(di, ok))
                  ELSE Then(close, ExitToShell)
             ELSE IF hasInit
                  THEN Then(close, Dispatch(<<[type |-> "SETUP_CONFIRM_SHOW", mode |-> mode]>>))
                  ELSE Then(close, createAndLaunch(s, root, mode, FALSE))

\* handleStageAll, up to its await
handleStageAll(s) ==
    IF s.commitWorktreePath = NULL THEN Nothing
    ELSE Out(<<>>, <<Task("stage", "add", s.commitTicketId, FALSE)>>,
             <<"git add">>, FALSE, "no")

\* a message that is prefixed whatever it contains
commitMsgAlwaysPrefix(ticketId, trimmed) == Prefix(ticketId) \o trimmed

\* the message handleCommitSubmit commits with
commitMsg(ticketId, trimmed) ==
    IF Includes(trimmed, Bracketed(ticketId)) THEN trimmed
    ELSE Prefix(ticketId) \o trimmed

\* handleCommitSubmit(value), up to its first await
handleCommitSubmit(s, value) ==
    IF s.commitWorktreePath = NULL \/ s.commitBranch = NULL THEN Nothing
    ELSE LET trimmed == Trim(value)
         IN  IF trimmed = <<>>
             THEN Dispatch(<<CommitError("Empty commit message")>>)
             ELSE Out(<<CommitPhase("committing")>>,
                      <<Task("commit", "commit", s.commitTicketId, FALSE)>>,
                      <<"git commit", commitMsg(s.commitTicketId, trimmed)>>, FALSE, "no")

\* doPrCreate(fill), up to its first await
doPrCreate(s, fill) ==
    IF s.prCreateWorktreePath = NULL \/ s.prCreateBranch = NULL THEN Nothing
    ELSE Out(<<PrPhase("pushing")>>,
             <<Task("pr", "push", s.prCreateTicketId, fill)>>,
             <<"git push">>, FALSE, "no")

\* the confirm-delete overlay removing with --force whatever the worktree holds
confirmDeleteForced(s, root) ==
    LET close == Dispatch(<<SetOverlay(NULL)>>)
    IN  IF HasIssue(s.flatIssues, s.selectedIndex)
           /\ s.flatIssues[s.selectedIndex + 1].worktree
           /\ root
        THEN LET di == s.flatIssues[s.selectedIndex + 1]
             IN  Then(close,
                      Out(<<[type |-> "DELETE_START", ticketId |-> di.identifier]>>,
                          <<Task("delete", "remove", di.identifier, TRUE)>>,
                          <<"removeWorktree">>, FALSE, "no"))
        ELSE close

\* confirm-delete overlay, key y
confirmDelete(s, root) ==
    LET close == Dispatch(<<SetOverlay(NULL)>>)
    IN  IF HasIssue(s.flatIssues, s.selectedIndex)
           /\ s.flatIssues[s.selectedIndex + 1].worktree
           /\ root
        THEN LET di == s.flatIssues[s.selectedIndex + 1]
             IN  Then(close,
                      Out(<<[type |-> "DELETE_START", ticketId |-> di.identifier]>>,
                          <<Task("delete", "remove", di.identifier, di.dirty)>>,
                          <<"removeWorktree">>, FALSE, "no"))
        ELSE close


\* -------------------------------------------------------- the keyboard
Key(input, special, shift) == [input |-> input, special |-> special, shift |-> shift]

\* The key presses: a character, or a special key (with or without shift).
\* "x" stands for every character no handler recognises.
Chars == {"q", "y", "n", "f", "w", "p", "i", "1", "2", "j", "k", "o", "c", "r",
          "e", "E", "C", "d", "R", "x"}

Keys == { Key(c, "none", FALSE) : c \in Chars }
        \cup { Key("", sp, FALSE) : sp \in {"escape", "return", "upArrow", "downArrow"} }
        \cup { Key("", sp, TRUE) : sp \in {"upArrow", "downArrow"} }

\* The outcomes of the environment a handler run depends on:
\*   ok: the external command it runs synchronously succeeds;
\*   hasInit: hasInitScript(repoRoot); found: findMainRepoRoot() finds a root.
\* A handler run consults at most one of the three, so the outcomes where two of
\* them fail together add nothing.
Env == { e \in [ok : BOOLEAN, hasInit : BOOLEAN, found : BOOLEAN] :
            Cardinality({ f \in {"ok", "hasInit", "found"} : ~e[f] }) <= 1 }

\* { isActive: state.overlay !== "commit" || state.commitPhase !== "awaiting-message" }
isActive(s) == s.overlay # "commit" \/ s.commitPhase # "awaiting-message"

\* useInput: the per-selected-issue action keys
issueKeys(s, key, root, tmux, env) ==
    LET di == s.flatIssues[s.selectedIndex + 1]
        input == key.input
        tmuxOrExit(okMsg, failMsg) ==
            IF tmux
            THEN Out(<<SetMsg(IF env.ok THEN okMsg ELSE failMsg)>>, <<>>, <<"tmux">>, FALSE, "no")
            ELSE ExitToShell
    IN  CASE input = "w" ->
                IF di.worktree /\ di.sessionId
                THEN Dispatch(<<SetMsg(Info)>>)
                ELSE Dispatch(<<SetOverlay("mode-select")>>)
          [] key.special = "return" ->
                IF ~di.worktree THEN Dispatch(<<SetMsg(Info)>>)
                ELSE IF tmux
                     THEN IF env.ok THEN Out(<<>>, <<>>, <<"tmux">>, FALSE, "no")
                          ELSE Out(<<SetMsg(Failed)>>, <<>>,
                                   <<"tmux">>, FALSE, "no")
                     ELSE ExitToShell
          [] input = "o" ->
                IF env.ok THEN Out(<<SetMsg(Info)>>, <<>>, <<"open">>, FALSE, "no")
                ELSE Out(<<>>, <<>>, <<"open">>, FALSE, "crash")
          [] input = "p" ->
                IF ~di.pr THEN Dispatch(<<SetMsg(Info)>>)
                ELSE IF env.ok
                     THEN Out(<<SetMsg(Info)>>, <<>>, <<"open">>, FALSE, "no")
                     ELSE Out(<<>>, <<>>, <<"open">>, FALSE, "crash")
          [] input = "c" ->
                IF ~di.worktree THEN Dispatch(<<SetMsg(Info)>>)
                ELSE IF di.pr THEN Dispatch(<<SetMsg(Info)>>)
                ELSE Dispatch(<<[type |-> "PR_CREATE_START", ticketId |-> di.identifier,
                                 worktreePath |-> PathOf(di.identifier),
                                 branch |-> BranchOf(di.identifier)]>>)
          [] input = "r" ->
                IF ~di.pr \/ ~di.worktree THEN Dispatch(<<SetMsg(Info)>>)
                ELSE tmuxOrExit(Info, Failed)
          [] input = "e" ->
                IF ~di.worktree THEN Dispatch(<<SetMsg(Info)>>)
                ELSE Out(<<SetMsg(Info)>>, <<>>, <<"editor">>, FALSE, "no")
          [] input = "E" ->
                IF ~root THEN Nothing
                ELSE Out(<<SetMsg(IF env.ok THEN Info
                                            ELSE Failed)>>,
                         <<>>, <<"editor">>, FALSE, "no")
          [] input = "C" ->
                IF ~di.worktree THEN Dispatch(<<SetMsg(Info)>>)
                ELSE IF ~di.dirty THEN Dispatch(<<SetMsg(Info)>>)
                ELSE Dispatch(<<[type |-> "COMMIT_START", ticketId |-> di.identifier,
                                 worktreePath |-> PathOf(di.identifier),
                                 branch |-> BranchOf(di.identifier),
                                 gitStatus |-> "M file"]>>)
          [] input = "f" ->
                IF ~di.pr \/ ~di.worktree THEN Dispatch(<<SetMsg(Info)>>)
                ELSE tmuxOrExit(Info, Failed)
          [] input = "d" ->
                IF ~di.worktree THEN Dispatch(<<SetMsg(Info)>>)
                ELSE Dispatch(<<SetOverlay("confirm-delete")>>)
          [] input = "R" -> refresh(FALSE, root, env.found)
          [] OTHER -> Nothing

\* useInput: the handler after the action message was cleared
routeKey(s, key, root, tmux, env) ==
    LET input == key.input
        escape == key.special = "escape"
        maxIndex == Len(s.flatIssues) - 1
    IN  IF s.overlay = "commit" THEN
            IF escape THEN Dispatch(<<[type |-> "COMMIT_CANCEL"]>>)
            ELSE IF s.commitPhase = "confirm-stage" THEN
                IF input = "y" THEN handleStageAll(s)
                ELSE IF input = "n" THEN Dispatch(<<[type |-> "COMMIT_CANCEL"]>>)
                ELSE Nothing
            ELSE Nothing
        ELSE IF s.overlay = "pr-create" THEN
            IF escape THEN Dispatch(<<[type |-> "PR_CREATE_CANCEL"]>>)
            ELSE IF s.prCreatePhase = "choose-mode" /\ input = "f" THEN doPrCreate(s, TRUE)
            ELSE IF s.prCreatePhase = "choose-mode" /\ input = "w" THEN doPrCreate(s, FALSE)
            ELSE Nothing
        ELSE IF s.overlay = "confirm-setup" THEN
            IF input = "y" /\ s.setupMode # NULL
            THEN Then(Dispatch(<<[type |-> "SETUP_CONFIRM_DONE"]>>),
                      createAndLaunch(s, root, s.setupMode, TRUE))
            ELSE IF input = "n" /\ s.setupMode # NULL
            THEN Then(Dispatch(<<[type |-> "SETUP_CONFIRM_DONE"]>>),
                      createAndLaunch(s, root, s.setupMode, FALSE))
            ELSE IF escape THEN Dispatch(<<[type |-> "SETUP_CONFIRM_DONE"]>>)
            ELSE Nothing
        ELSE IF s.overlay = "mode-select" THEN
            IF input = "p" \/ input = "1"
            THEN doWork(s, root, tmux, "plan", env.hasInit, env.ok)
            ELSE IF input = "i" \/ input = "2"
            THEN doWork(s, root, tmux, "implement", env.hasInit, env.ok)
            ELSE IF escape \/ input = "q" THEN Dispatch(<<SetOverlay(NULL)>>)
            ELSE Nothing
        ELSE IF s.overlay = "confirm-delete" THEN
            IF input = "y" THEN confirmDelete(s, root)
            ELSE IF input = "n" \/ escape \/ input = "q" THEN Dispatch(<<SetOverlay(NULL)>>)
            ELSE Nothing
        ELSE IF input = "q" THEN Out(<<>>, <<>>, <<>>, FALSE, "exit")
        ELSE IF input = "j" \/ (key.special = "downArrow" /\ ~key.shift)
        THEN Dispatch(<<Select(Min(s.selectedIndex + 1, maxIndex))>>)
        ELSE IF input = "k" \/ (key.special = "upArrow" /\ ~key.shift)
        THEN Dispatch(<<Select(Max(s.selectedIndex - 1, 0))>>)
        ELSE IF key.shift /\ key.special = "downArrow"
        THEN Dispatch(<<[type |-> "SCROLL_DETAIL", offset |-> s.detailScrollOffset + 3]>>)
        ELSE IF key.shift /\ key.special = "upArrow"
        THEN Dispatch(<<[type |-> "SCROLL_DETAIL",
                         offset |-> Max(0, s.detailScrollOffset - 3)]>>)
        ELSE IF ~HasIssue(s.flatIssues, s.selectedIndex) THEN Nothing
        ELSE issueKeys(s, key, root, tmux, env)

\* useInput((input, key) => ...): one key press
useInput(s, key, root, tmux, env) ==
    IF ~isActive(s) THEN Nothing
    ELSE LET clear == IF s.actionMessage # NULL /\ key.input # "q"
                      THEN Dispatch(<<SetMsg(NULL)>>) ELSE Nothing
         IN  Then(clear, routeKey(s, key, root, tmux, env))


\* ------------------------------------------------------------- actions
Range(q) == { q[i] : i \in 1..Len(q) }
BagOfSeq(q) == [x \in Range(q) |-> Cardinality({ i \in 1..Len(q) : q[i] = x })]

\* const separatorWidth = 3 / const sepW = 3; const minW = 20
sepW == 3
minW == 20
LIST_FOOTER_HEIGHT == 2

\* The terminals the dashboard is run in: stdout.columns x stdout.rows.
TermSizes == { [columns |-> 80, rows |-> 24], [columns |-> 80, rows |-> 6] }

\* useState(Math.floor(columns * 0.42))
initialLeftWidth(columns) == (columns * 42) \div 100

\* const maxVisible = contentHeight - LIST_FOOTER_HEIGHT, contentHeight = rows - 1
maxVisibleOf(rows) == (rows - 1) - LIST_FOOTER_HEIGHT

\* One run of the list scroll tracking effect: the offset it computes.
listScrollTrack(s, rows) ==
    LET rowIdx == getRowIndexForFlatIndex(s.groups, s.selectedIndex)
        maxVisible == maxVisibleOf(rows)
    IN  IF rowIdx < s.listScrollOffset THEN Max(0, rowIdx - 1)
        ELSE IF rowIdx >= s.listScrollOffset + maxVisible
        THEN rowIdx - maxVisible + 2
        ELSE s.listScrollOffset

\* The list scroll tracking effect, run after a render until it dispatches
\* nothing; rows is the terminal height.
RECURSIVE listScrollEffect(_, _)
listScrollEffect(s, rows) ==
    LET offset == listScrollTrack(s, rows)
    IN  IF offset # s.listScrollOffset
        THEN listScrollEffect(reducer(s, [type |-> "SCROLL_LIST", offset |-> offset]), rows)
        ELSE s

LayIdle == [pc |-> "idle", groups |-> <<>>, flatIndex |-> 0, row |-> 0, back |-> NoIndex]

\* One handler run o; rest is the bag of the other pending tasks.
Step(o, rest) ==
    /\ BagCardinality(rest) + Len(o.spawn) <= MaxTasks
    /\ state' = listScrollEffect(Reduce(state, o.acts), termSize.rows)
    /\ tasks' = rest (+) BagOfSeq(o.spawn)
    /\ repoRootRef' = (repoRootRef \/ o.root)
    /\ exited' = (o.fin # "no")
    /\ terminal' \in processEnd(o.fin, written(terminal, o.calls))
    /\ UNCHANGED <<inTmux, lay, draggingRef, leftWidth, termSize>>

Running == ~exited /\ lay.pc = "idle"

Pending(k, pc) == { t \in BagToSet(tasks) : t.k = k /\ t.pc = pc }
Without(t) == tasks (-) SetToBag({t})

\* What the key presses of K can make useInput do in the current state.
inputOutcomes(K) ==
    { useInput(state, key, repoRootRef, inTmux, env) : key \in K, env \in Env }

\* A key press of K reaches useInput.
Input(K) ==
    /\ Running
    /\ \E o \in inputOutcomes(K) :
          /\ Reduce(state, o.acts).detailScrollOffset <= MaxDetailScroll
          /\ Step(o, tasks)

\* The TextInput of the commit overlay is rendered.
textInputMounted(s) ==
    /\ ~s.loading /\ s.error = NULL /\ s.flatIssues # <<>>
    /\ s.overlay = "commit" /\ s.commitPhase = "awaiting-message"

\* What the user can have typed after an edit of the message.
TypedMessages(t) == { <<" ">>, <<"x">>, Prefix(t) \o <<"x", " ">> }

\* TextInput onChange={(v) => dispatch({ type: "COMMIT_MESSAGE", message: v })}
TextChange ==
    /\ Running /\ textInputMounted(state)
    /\ \E v \in TypedMessages(state.commitTicketId) :
          Step(Dispatch(<<[type |-> "COMMIT_MESSAGE", message |-> v]>>), tasks)

\* TextInput onSubmit={onSubmit}: Enter submits the value shown
TextSubmit ==
    /\ Running /\ textInputMounted(state)
    /\ Step(handleCommitSubmit(state, state.commitMessage), tasks)

\* setInterval(() => refresh(), 30_000)
AutoRefresh ==
    /\ Running
    /\ \E found \in BOOLEAN : Step(refresh(FALSE, repoRootRef, found), tasks)

\* A setTimeout fires.
TimerFire ==
    /\ Running
    /\ \E t \in BagToSet(tasks), found \in BOOLEAN :
          /\ t.k = "timer"
          /\ LET o == CASE t.pc = "init" -> refresh(TRUE, repoRootRef, found)
                        [] t.pc = "refresh" -> refresh(FALSE, repoRootRef, found)
                        [] t.pc = "commit-close" ->
                              Then(Dispatch(<<[type |-> "COMMIT_CANCEL"]>>),
                                   refresh(FALSE, repoRootRef, found))
                        [] t.pc = "pr-close" ->
                              Then(Dispatch(<<[type |-> "PR_CREATE_CANCEL"]>>),
                                   refresh(FALSE, repoRootRef, found))
             IN  Step(o, Without(t))

\* refresh without its catch: the rejection leaves the handler
RefreshDoneUncaught(D) ==
    /\ Running
    /\ \E t \in Pending("refresh", "load") :
          \/ \E d \in D :
                Step(Dispatch(<<[type |-> "SET_DATA", groups |-> d.groups,
                                 flatIssues |-> d.flatIssues]>>), Without(t))
          \/ Step(Out(<<>>, <<>>, <<>>, FALSE, "crash"), Without(t))

\* refresh: await loadDashboardData(repoRoot) resolves or rejects
RefreshDone(D) ==
    /\ Running
    /\ \E t \in Pending("refresh", "load") :
          \/ \E d \in D :
                Step(Dispatch(<<[type |-> "SET_DATA", groups |-> d.groups,
                                 flatIssues |-> d.flatIssues]>>), Without(t))
          \/ Step(Dispatch(<<[type |-> "SET_ERROR", error |-> "Failed to fetch"]>>), Without(t))

\* handleStageAll: await execAsync("git add -A") settles
StageDone ==
    /\ Running
    /\ \E t \in Pending("stage", "add"), ok \in BOOLEAN :
          Step(IF ok
               THEN Dispatch(<<[type |-> "COMMIT_MESSAGE", message |-> Prefix(t.t)],
                               CommitPhase("awaiting-message")>>)
               ELSE Dispatch(<<CommitError("Failed to stage")>>), Without(t))

\* handleCommitSubmit without the return after a failed git commit
CommitDoneNoHalt ==
    /\ Running
    /\ \E t \in Pending("commit", "commit"), ok \in BOOLEAN :
          Step(Out((IF ok THEN <<>> ELSE <<CommitError("Commit failed")>>)
                       \o <<CommitPhase("pushing")>>,
                   <<[t EXCEPT !.pc = "push"]>>, <<"git push">>, FALSE, "no"), Without(t))

\* handleCommitSubmit: await execAsync(`git commit ...`) settles
CommitDone ==
    /\ Running
    /\ \E t \in Pending("commit", "commit"), ok \in BOOLEAN :
          Step(IF ok
               THEN Out(<<CommitPhase("pushing")>>, <<[t EXCEPT !.pc = "push"]>>,
                        <<"git push">>, FALSE, "no")
               ELSE Dispatch(<<CommitError("Commit failed")>>), Without(t))

\* handleCommitSubmit without the setTimeout after COMMIT_DONE
CommitPushDoneNoTimer ==
    /\ Running
    /\ \E t \in Pending("commit", "push"), ok \in BOOLEAN :
          Step(IF ok THEN Dispatch(<<[type |-> "COMMIT_DONE"]>>)
               ELSE Dispatch(<<CommitError("Push failed")>>), Without(t))

\* handleCommitSubmit: await execAsync(`git push ...`) settles
CommitPushDone ==
    /\ Running
    /\ \E t \in Pending("commit", "push"), ok \in BOOLEAN :
          Step(IF ok
               THEN Out(<<[type |-> "COMMIT_DONE"]>>, <<Timer("commit-close")>>,
                        <<>>, FALSE, "no")
               ELSE Dispatch(<<CommitError("Push failed")>>), Without(t))

\* doPrCreate: await execAsync(`git -C ... push ...`) settles
PrPushDone ==
    /\ Running
    /\ \E t \in Pending("pr", "push"), ok \in BOOLEAN :
          Step(IF ok
               THEN Out(<<PrPhase("creating")>>, <<[t EXCEPT !.pc = "create"]>>,
                        <<"gh pr create">>, FALSE, "no")
               ELSE Dispatch(<<PrError("Push failed")>>), Without(t))

\* doPrCreate: await execAsync(`gh pr create ...`) settles
PrCreateDone ==
    /\ Running
    /\ \E t \in Pending("pr", "create"), ok \in BOOLEAN :
          Step(IF ok
               THEN Out(<<[type |-> "PR_CREATE_DONE", url |-> IF t.flag THEN "url" ELSE ""]>>,
                        <<Timer("pr-close")>>, <<>>, FALSE, "no")
               ELSE Dispatch(<<PrError("PR creation failed")>>), Without(t))

\* createAndLaunch: the fetch / checkout / pull awaits settle (a failure is logged)
CreateFetchDone ==
    /\ Running
    /\ \E t \in Pending("create", "fetch") :
          Step(Out(<<Log, Log>>, <<[t EXCEPT !.pc = "worktree"]>>,
                   <<"createWorktree">>, FALSE, "no"), Without(t))

\* a workflow that writes its last log line after CREATION_DONE
createFinishLogsAfter(t, ok) ==
    Then(Dispatch(<<[type |-> "CREATION_DONE"], Log>>), launchAfterCreation(inTmux, ok))

\* after createWorktree succeeded and the init script, if any, ended
createFinish(t, ok) ==
    Then(Dispatch(<<[type |-> "CREATION_DONE"]>>), launchAfterCreation(inTmux, ok))

\* createAndLaunch: await createWorktree(...) resolves or rejects. createWorktree
\* returns {success: false} for the failures of git, but its fs.mkdirSync of the
\* worktrees directory stands outside its try (lib/git.ts): when that throws, the
\* promise rejects, createAndLaunch has no catch, and the rejection leaves the
\* handler with nothing dispatched.
CreateWorktreeDone ==
    /\ Running
    /\ \E t \in Pending("create", "worktree") :
          \/ \E success \in BOOLEAN, canExecute \in BOOLEAN, ok \in BOOLEAN :
                Step(IF ~success
                     THEN Dispatch(<<[type |-> "CREATION_ERROR", error |-> "Unknown error"],
                                     SetMsg(Failed)>>)
                     ELSE IF t.flag /\ canExecute
                     THEN Out(<<Log, Log>>, <<[t EXCEPT !.pc = "init"]>>,
                              <<"init.sh">>, FALSE, "no")
                     ELSE Then(Dispatch(<<Log>> \o (IF t.flag THEN <<Log>> ELSE <<>>)),
                               createFinish(t, ok)), Without(t))
          \/ Step(Out(<<>>, <<>>, <<>>, FALSE, "crash"), Without(t))

\* createAndLaunch: the init script writes output (onOutput)
CreateInitOutput ==
    /\ Running
    /\ \E t \in Pending("create", "init") :
          Step(Out(<<Log>>, <<t>>, <<>>, FALSE, "no"), Without(t))

\* createAndLaunch: await spawnAsync(initScript, ...) resolves
CreateInitDone ==
    /\ Running
    /\ \E t \in Pending("create", "init"), ok \in BOOLEAN :
          Step(Then(Dispatch(<<Log>>), createFinish(t, ok)), Without(t))

\* removeWorktree(...).then((result) => ...)
DeleteDone ==
    /\ Running
    /\ \E t \in Pending("delete", "remove"), success \in BOOLEAN, found \in BOOLEAN :
          Step(IF success
               THEN Then(Dispatch(<<[type |-> "DELETE_DONE"], SetMsg(Info)>>),
                         refresh(FALSE, repoRootRef, found))
               ELSE Dispatch(<<[type |-> "DELETE_DONE"], SetMsg(Failed)>>), Without(t))

\* ------------------------------------------------------------ the mouse
\* An SGR mouse report \x1b[<button;col;row(M|m); release: the final letter is m.
MouseEvent(button, col, row, release) ==
    [button |-> button, col |-> col, row |-> row, release |-> release]

\* what onData leaves: the handler's outcome, draggingRef.current, leftWidth
Mouse(o, dragging, lw) == [out |-> o, dragging |-> dragging, leftWidth |-> lw]

\* onData(data) for a mouse report; lw: leftWidthRef.current, cols: stdout.columns
onData(s, ev, lw, dragging, cols) ==
    LET isRelease == ev.release
        isPress == ~ev.release /\ ev.button = 0
        isDrag == ~ev.release /\ ev.button = 32
        maxIdx == Len(s.flatIssues) - 1
        delta == IF ev.button = 65 THEN 3 ELSE -3
        listRow == s.listScrollOffset + (ev.row - 2)
        flatIdx == getFlatIndexForListRow(s.groups, listRow)
    IN  IF isRelease /\ dragging THEN Mouse(Nothing, FALSE, lw)
        ELSE IF isDrag /\ dragging
        THEN Mouse(Nothing, dragging, Max(minW, Min(ev.col - 1, cols - sepW - minW)))
        ELSE IF ~ev.release /\ ev.button \in {64, 65}
        THEN IF ev.col <= lw
             THEN IF maxIdx < 0 THEN Mouse(Nothing, dragging, lw)
                  ELSE Mouse(Dispatch(<<Select(Max(0, Min(s.selectedIndex + delta, maxIdx)))>>),
                             dragging, lw)
             ELSE Mouse(Dispatch(<<[type |-> "SCROLL_DETAIL",
                                    offset |-> Max(0, s.detailScrollOffset + delta)]>>),
                        dragging, lw)
        ELSE IF ~isPress THEN Mouse(Nothing, dragging, lw)
        ELSE IF ev.col >= lw + 1 /\ ev.col <= lw + sepW THEN Mouse(Nothing, TRUE, lw)
        ELSE IF s.loading \/ s.error # NULL \/ s.flatIssues = <<>>
        THEN Mouse(Nothing, dragging, lw)
        ELSE IF ev.col > lw THEN Mouse(Nothing, dragging, lw)
        ELSE IF ev.row - 2 < 0 THEN Mouse(Nothing, dragging, lw)
        ELSE IF flatIdx # NoIndex /\ flatIdx >= 0 /\ flatIdx < Len(s.flatIssues)
        THEN Mouse(Dispatch(<<Select(flatIdx)>>), dragging, lw)
        ELSE Mouse(Nothing, dragging, lw)

\* buttons: 0 left, 1 middle, 32 left drag, 64 / 65 wheel up / down
MouseButtons == {0, 1, 32, 64, 65}
\* columns in the list pane, on the initial divider, and in the detail pane
MouseCols == {1, 30, 34, 60}

MouseEvents ==
    { MouseEvent(b, c, r, rel) :
        b \in MouseButtons, c \in MouseCols, r \in 1..termSize.rows, rel \in BOOLEAN }

\* process.stdin.on("data", onData): a mouse report arrives
MouseData ==
    /\ Running
    /\ \E m \in { onData(state, ev, leftWidth, draggingRef, termSize.columns) :
                    ev \in MouseEvents } :
          /\ Reduce(state, m.out.acts).detailScrollOffset <= MaxDetailScroll
          /\ state' = listScrollEffect(Reduce(state, m.out.acts), termSize.rows)
          /\ draggingRef' = m.dragging
          /\ leftWidth' = m.leftWidth
          /\ UNCHANGED <<tasks, repoRootRef, inTmux, exited, lay, termSize, terminal>>

Init ==
    /\ state = initialState
    /\ tasks = SetToBag({Timer("init")})
    /\ repoRootRef = FALSE
    /\ inTmux \in BOOLEAN
    /\ exited = FALSE
    /\ lay = LayIdle
    /\ draggingRef = FALSE
    /\ termSize \in TermSizes
    /\ leftWidth = initialLeftWidth(termSize.columns)
    /\ terminal = mounted

\* The keys of the commit and PR-create overlays, of navigation and of refresh.
OverlayKeys ==
    { k \in Keys : k.special = "escape"
                   \/ k.input \in {"C", "c", "y", "n", "f", "w", "j", "k", "x"} }

\* The dashboard with the commit and PR-create overlays and the data refresh.
Next ==
    \/ Input(OverlayKeys)
    \/ TextChange
    \/ TextSubmit
    \/ TimerFire
    \/ RefreshDone(Data({DataBoth, DataOnly2}))
    \/ StageDone
    \/ CommitDone
    \/ CommitPushDone
    \/ PrPushDone
    \/ PrCreateDone

\* None of these flows consults isInTmux() on issues without a pull request, and
\* their lists fit a 24-row terminal, so the dashboard of this specification
\* runs inside tmux in a terminal of that height.
OverlayInit == Init /\ inTmux = TRUE /\ termSize.rows = 24

Spec == OverlayInit /\ [][Next]_vars

\* The keys of navigation and of manual refresh.
NavKeys ==
    { k \in Keys : (k.special \in {"upArrow", "downArrow"} /\ ~k.shift)
                   \/ k.input \in {"j", "k", "R", "x"} }

\* The dashboard with navigation and the data refresh (interval, manual, initial).
RefreshNext ==
    \/ Input(NavKeys)
    \/ AutoRefresh
    \/ TimerFire
    \/ RefreshDone(DataSets)

RefreshSpec == Init /\ [][RefreshNext]_vars

\* The keys that open and cancel the overlays, and navigation.
MouseKeys ==
    { k \in Keys : k.special \in {"escape", "upArrow", "downArrow"}
                   \/ k.input \in {"w", "d", "C", "c", "j", "k", "R", "x"} }

\* The dashboard with the mouse, navigation, the overlays and the data refresh.
MouseNext ==
    \/ MouseData
    \/ Input(MouseKeys)
    \/ TimerFire
    \/ RefreshDone(Data({DataNone, DataBoth, DataSwap}))

MouseSpec == Init /\ [][MouseNext]_vars

\* The keys of the work / create and delete flows and of navigation.
WorkKeys ==
    { k \in Keys : (k.special \in {"escape", "return"})
                   \/ k.input \in {"w", "p", "i", "y", "n", "d", "j", "q", "x"} }

\* The dashboard with worktree creation and removal.
WorkNext ==
    \/ Input(WorkKeys)
    \/ TimerFire
    \/ RefreshDone(Data({DataBoth, DataOnly2}))
    \/ CreateFetchDone
    \/ CreateWorktreeDone
    \/ CreateInitOutput
    \/ CreateInitDone
    \/ DeleteDone

WorkSpec == Init /\ [][WorkNext]_vars

\* ------------------------------------------- scroll helpers, applied
DummyIssue == Issue("T1", FALSE, FALSE, FALSE, FALSE)

SeqsUpTo(S, lo, hi) == UNION { [1..n -> S] : n \in lo..hi }

\* group structures as loadDashboardData builds them: a status group is created
\* with its first issue and a project group with its first status group
LayGroups ==
    LET sgs == { SG("started", is) : is \in SeqsUpTo({DummyIssue}, 1, MaxIssues) }
        pgs == { PG("P", ss) : ss \in SeqsUpTo(sgs, 1, MaxStatus) }
    IN  SeqsUpTo(pgs, 0, MaxGroups)

LayInit ==
    /\ state = initialState
    /\ tasks = EmptyBag
    /\ repoRootRef = FALSE
    /\ inTmux = FALSE
    /\ exited = FALSE
    /\ \E g \in LayGroups : lay = [LayIdle EXCEPT !.pc = "start", !.groups = g]
    /\ draggingRef = FALSE
    /\ termSize = [columns |-> 80, rows |-> 24]
    /\ leftWidth = initialLeftWidth(termSize.columns)
    /\ terminal = mounted

\* getRowIndexForFlatIndex(groups, flatIndex) for a flat index of the list (or
\* the first index past it)
LayRow ==
    /\ lay.pc = "start"
    /\ \E i \in 0..Len(flatten(lay.groups)) :
          lay' = [lay EXCEPT !.pc = "row", !.flatIndex = i,
                             !.row = getRowIndexForFlatIndex(lay.groups, i)]
    /\ UNCHANGED <<state, tasks, repoRootRef, inTmux, exited, draggingRef, leftWidth, termSize, terminal>>

\* getFlatIndexForListRow(groups, row) for the row just computed
LayBack ==
    /\ lay.pc = "row"
    /\ lay' = [lay EXCEPT !.pc = "back",
                          !.back = getFlatIndexForListRow(lay.groups, lay.row)]
    /\ UNCHANGED <<state, tasks, repoRootRef, inTmux, exited, draggingRef, leftWidth, termSize, terminal>>

LayNext == LayRow \/ LayBack

LaySpec == LayInit /\ [][LayNext]_vars


\* ------------------------------------------------------------- claims
\* the number of pending tasks of workflow k suspended at pc
Count(k, pc) == BagCardinality([t \in Pending(k, pc) |-> CopiesIn(t, tasks)])

\* the identifier of the selected issue, NULL when the selection is on no issue
selectedId(s) ==
    IF HasIssue(s.flatIssues, s.selectedIndex)
    THEN s.flatIssues[s.selectedIndex + 1].identifier ELSE NULL

Occurs(flat, id) == \E n \in 1..Len(flat) : flat[n].identifier = id

\* C1: for every group structure and every flat index i of its issues,
\* getFlatIndexForListRow(groups, getRowIndexForFlatIndex(groups, i)) = i.
C1_InverseMapping ==
    (lay.pc = "back" /\ lay.flatIndex < Len(flatten(lay.groups)))
        => lay.back = lay.flatIndex

\* the round trip was made for the last issue of a two-project list
C1_Witness ==
    /\ lay.pc = "back" /\ Len(lay.groups) = 2
    /\ lay.flatIndex = Len(flatten(lay.groups)) - 1 /\ lay.flatIndex >= 2
    /\ lay.back = lay.flatIndex

\* a refresh completed with SET_DATA: the only step that takes a pending load
\* away and leaves no error
SetDataStep == Count("refresh", "load")' < Count("refresh", "load") /\ state'.error = NULL

\* C2: SET_DATA moves the selection to the index of the previously selected
\* identifier X in the new flat list whenever X occurs there, whatever the new
\* order, and to 0 when X does not occur or nothing was selected.
C2_SelectionPreserved ==
    [][SetDataStep =>
          LET X == selectedId(state)
          IN  IF X # NULL /\ Occurs(state'.flatIssues, X)
              THEN selectedId(state') = X
              ELSE state'.selectedIndex = 0]_vars

\* T1 is selected at index 0 and a refresh is pending whose data would have T1
\* at index 1
C2_Witness ==
    /\ selectedId(state) = "T1" /\ state.selectedIndex = 0
    /\ Count("refresh", "load") > 0
    /\ LET d == [groups |-> DataSwap, flatIssues |-> flatten(DataSwap)]
       IN  reducer(state, [type |-> "SET_DATA", groups |-> d.groups,
                           flatIssues |-> d.flatIssues]).selectedIndex = 1

\* the commit fields the overlay sentence names, at their empty defaults
commitDefaults(s) ==
    /\ s.commitPhase = "idle" /\ s.commitMessage = <<>> /\ s.commitError = NULL
    /\ s.commitTicketId = NULL /\ s.commitWorktreePath = NULL /\ s.commitBranch = NULL

prCreateDefaults(s) ==
    /\ s.prCreatePhase = "idle" /\ s.prCreateTicketId = NULL
    /\ s.prCreateWorktreePath = NULL /\ s.prCreateBranch = NULL
    /\ s.prCreateError = NULL /\ s.prCreateUrl = NULL

\* C3: in every reachable state the commit fields are at their defaults unless
\* the commit overlay is active, and the PR-create fields are at their defaults
\* unless the PR-create overlay is active.
C3_OverlayFieldsCleared ==
    /\ state.overlay # "commit" => commitDefaults(state)
    /\ state.overlay # "pr-create" => prCreateDefaults(state)

\* C4: from any state COMMIT_CANCEL closes the overlay and resets every commit
\* field (git status included), and PR_CREATE_CANCEL closes the overlay and
\* resets every PR-create field.
C4_CancelResets ==
    LET c == reducer(state, [type |-> "COMMIT_CANCEL"])
        p == reducer(state, [type |-> "PR_CREATE_CANCEL"])
    IN  /\ c.overlay = NULL /\ commitDefaults(c) /\ c.commitGitStatus = ""
        /\ p.overlay = NULL /\ prCreateDefaults(p)

\* the commit overlay is open with every commit field set, beside PR-create
\* fields a cancelled PR creation left behind
C4_Witness ==
    /\ state.overlay = "commit" /\ state.commitPhase = "error"
    /\ state.commitMessage # <<>> /\ state.commitError # NULL
    /\ state.commitTicketId # NULL /\ state.commitWorktreePath # NULL
    /\ state.commitBranch # NULL /\ state.commitGitStatus # ""
    /\ state.prCreatePhase = "error" /\ state.prCreateError # NULL
    /\ reducer(state, [type |-> "COMMIT_CANCEL"]).overlay = NULL

InFlight(k) ==
    BagCardinality([t \in { u \in BagToSet(tasks) : u.k = k } |-> CopiesIn(t, tasks)])

EscapeKey == Key("", "escape", FALSE)

\* C6: while a create-and-launch workflow is in flight (creatingForTicket is
\* its ticket) no further create-and-launch starts: at most one is in flight, so
\* createWorktree runs at most once between CREATION_START and the matching
\* CREATION_DONE / CREATION_ERROR, and a workflow starts only from
\* creatingForTicket = null.
C6_CreateOnce ==
    /\ [](/\ InFlight("create") <= 1
          /\ \A t \in BagToSet(tasks) : t.k = "create" => state.creatingForTicket = t.t)
    /\ [][InFlight("create")' > InFlight("create")
             => state.creatingForTicket = NULL /\ state'.creatingForTicket # NULL]_vars

\* a creation is in flight, the mode-select overlay is open on an issue without
\* worktree and there is no init script: its key p, which reaches
\* createAndLaunch through doWork, starts nothing
C6_Witness ==
    /\ InFlight("create") = 1 /\ state.creatingForTicket # NULL
    /\ state.overlay = "mode-select" /\ repoRootRef
    /\ HasIssue(state.flatIssues, state.selectedIndex)
    /\ ~state.flatIssues[state.selectedIndex + 1].worktree
    /\ \A env \in Env :
          ~env.hasInit =>
             useInput(state, Key("p", "none", FALSE), repoRootRef, inTmux, env).spawn = <<>>

\* C7: while a removal is in flight for ticket T, delete and confirm on T's row
\* do not invoke removeWorktree again: no ticket has two removals in flight.
C7_DeleteOnce ==
    \A t \in BagToSet(tasks) : t.k = "delete" => CopiesIn(t, tasks) <= 1

CommitOrder ==
    { <<"confirm-stage", "awaiting-message">>, <<"awaiting-message", "committing">>,
      <<"committing", "pushing">>, <<"pushing", "done">>,
      <<"committing", "error">>, <<"pushing", "error">> }

\* C8: while the commit overlay stays open, commitPhase changes only along
\* confirm-stage -> awaiting-message -> committing -> pushing -> done, enters
\* error only from committing or pushing, and never leaves error.
C8_CommitPhaseOrder ==
    [][(/\ state.overlay = "commit" /\ state'.overlay = "commit"
        /\ state'.commitPhase # state.commitPhase)
          => <<state.commitPhase, state'.commitPhase>> \in CommitOrder]_vars

PrCreateOrder ==
    { <<"choose-mode", "pushing">>, <<"pushing", "creating">>, <<"creating", "done">>,
      <<"pushing", "error">>, <<"creating", "error">> }

\* C9: while the PR-create overlay stays open, prCreatePhase changes only along
\* choose-mode -> pushing -> creating -> done, enters error only from pushing
\* or creating, and gh pr create is started only by a push that succeeded.
C9_PrCreatePhaseOrder ==
    [][/\ (/\ state.overlay = "pr-create" /\ state'.overlay = "pr-create"
           /\ state'.prCreatePhase # state.prCreatePhase)
             => <<state.prCreatePhase, state'.prCreatePhase>> \in PrCreateOrder
       /\ Count("pr", "create")' > Count("pr", "create")
             => Count("pr", "push")' < Count("pr", "push")]_vars

\* C10: in every phase of the commit overlay and of the PR-create overlay,
\* awaiting-message included, pressing Escape makes overlay null.
C10_EscapeCloses ==
    state.overlay \in {"commit", "pr-create"}
        => \A env \in Env :
              Reduce(state, useInput(state, EscapeKey, repoRootRef, inTmux, env).acts).overlay
                  = NULL


\* a step takes a workflow of kind k away from its await pc / puts one there
Consumed(k, pc) == Count(k, pc)' < Count(k, pc)
Spawned(k, pc) == Count(k, pc)' > Count(k, pc)

\* C11: the commit workflow runs stage-all, commit, push in this order and
\* halts at the first failure with the phase error: a settled git add starts no
\* commit and leaves awaiting-message or error; git commit starts only from
\* awaiting-message, which only a successful git add sets; git push starts only
\* when a git commit succeeded, a failed one leaving error and nothing in
\* flight; done and the auto-close timer come only from a successful git push, a
\* failed one leaving error.
C11_CommitStepsHalt ==
    [][/\ Consumed("stage", "add")
            => /\ ~Spawned("commit", "commit") /\ ~Spawned("commit", "push")
               /\ state'.commitPhase \in {"awaiting-message", "error"}
       /\ (state'.commitPhase = "awaiting-message" /\ state.commitPhase # "awaiting-message")
            => Consumed("stage", "add")
       /\ Spawned("commit", "commit")
            => /\ state.commitPhase = "awaiting-message"
               /\ state'.commitPhase = "committing"
       /\ Consumed("commit", "commit")
            => \/ /\ Spawned("commit", "push") /\ state'.commitPhase = "pushing"
                  /\ state'.commitError = state.commitError
               \/ /\ ~Spawned("commit", "push") /\ state'.commitPhase = "error"
                  /\ BagCardinality(tasks') = BagCardinality(tasks) - 1
       /\ Spawned("commit", "push") => Consumed("commit", "commit")
       /\ Consumed("commit", "push")
            => \/ state'.commitPhase = "done" /\ Spawned("timer", "commit-close")
               \/ /\ state'.commitPhase = "error" /\ ~Spawned("timer", "commit-close")
                  /\ BagCardinality(tasks') = BagCardinality(tasks) - 1
       /\ (state'.commitPhase = "done" /\ state.commitPhase # "done")
            => Consumed("commit", "push")
       /\ Spawned("timer", "commit-close") => Consumed("commit", "push")]_vars

\* a git push failed: the overlay shows the error, no commit workflow is in
\* flight and no auto-close is scheduled
C11_Witness ==
    /\ state.overlay = "commit" /\ state.commitPhase = "error"
    /\ state.commitError = "Push failed"
    /\ InFlight("commit") = 0 /\ InFlight("stage") = 0
    /\ Count("timer", "commit-close") = 0


\* ------------------------------------------------- the submitted message
MaxMsgLen == 4

\* what the TextInput can hold when Enter is pressed
MsgChars == {" ", "x", "[", "]", "T1", "T2"}
MsgValues == SeqsUpTo(MsgChars, 0, MaxMsgLen)

\* The commit overlay for T1 in awaiting-message with a typed message.
MsgInit ==
    /\ \E v \in MsgValues :
          state = Reduce(initialState,
                         << [type |-> "SET_DATA", groups |-> DataBoth,
                             flatIssues |-> flatten(DataBoth)],
                            [type |-> "COMMIT_START", ticketId |-> "T1",
                             worktreePath |-> PathOf("T1"), branch |-> BranchOf("T1"),
                             gitStatus |-> "M file"],
                            CommitPhase("awaiting-message"),
                            [type |-> "COMMIT_MESSAGE", message |-> v] >>)
    /\ tasks = EmptyBag
    /\ repoRootRef = TRUE
    /\ inTmux = TRUE
    /\ exited = FALSE
    /\ lay = [pc |-> "typed", calls |-> <<>>]
    /\ draggingRef = FALSE
    /\ termSize = [columns |-> 80, rows |-> 24]
    /\ leftWidth = initialLeftWidth(termSize.columns)
    /\ terminal = mounted

\* TextInput onSubmit: handleCommitSubmit(value), with the command it runs
MsgSubmit ==
    /\ lay.pc = "typed" /\ textInputMounted(state)
    /\ LET o == handleCommitSubmit(state, state.commitMessage)
       IN  /\ state' = Reduce(state, o.acts)
           /\ tasks' = tasks (+) BagOfSeq(o.spawn)
           /\ lay' = [pc |-> "submitted", calls |-> o.calls]
    /\ UNCHANGED <<repoRootRef, inTmux, exited, draggingRef, leftWidth, termSize, terminal>>

MsgSpec == MsgInit /\ [][MsgSubmit]_vars

\* C12: the message committed for ticket T is the trimmed input when that
\* contains "[T]" and "[T] " followed by the trimmed input otherwise; an input
\* empty after trimming gives the error phase and runs no commit.
C12_CommitMessage ==
    lay.pc = "submitted" =>
        LET T == state.commitTicketId
            trimmed == Trim(state.commitMessage)
        IN  IF trimmed = <<>>
            THEN state.commitPhase = "error" /\ lay.calls = <<>> /\ tasks = EmptyBag
            ELSE /\ state.commitPhase = "committing" /\ InFlight("commit") = 1
                 /\ lay.calls[1] = "git commit"
                 /\ lay.calls[2] = IF Includes(trimmed, <<"[", T, "]">>)
                                   THEN trimmed
                                   ELSE <<"[", T, "]", " ">> \o trimmed

\* "fix bug" was submitted for T1 and "[T1] fix bug" is committed
C12_Witness ==
    /\ lay.pc = "submitted" /\ state.commitMessage = <<"x", " ", "x">>
    /\ lay.calls = <<"git commit", <<"[", "T1", "]", " ", "x", " ", "x">> >>


\* C13: when the push of a commit workflow succeeds the phase becomes done and
\* the auto-close is scheduled; when the auto-close delay elapses the overlay
\* is null, the commit fields are reset and a data refresh is started.
C13_CommitAutoClose ==
    [][/\ (Consumed("commit", "push") /\ state'.commitError # "Push failed")
            => state'.commitPhase = "done" /\ Spawned("timer", "commit-close")
       /\ Consumed("timer", "commit-close")
            => /\ state'.overlay = NULL /\ commitDefaults(state')
               /\ state'.refreshing /\ Spawned("refresh", "load")]_vars

\* commit and push succeeded: the overlay shows done and its auto-close is
\* pending
C13_Witness ==
    /\ state.overlay = "commit" /\ state.commitPhase = "done"
    /\ Count("timer", "commit-close") = 1 /\ InFlight("commit") = 0
    /\ ~state.refreshing /\ Count("refresh", "load") = 0


\* the keys an overlay defines, Escape apart
OwnInputs(ov) ==
    CASE ov = "commit" -> {"y", "n"}
      [] ov = "pr-create" -> {"f", "w"}
      [] ov = "confirm-setup" -> {"y", "n"}
      [] ov = "mode-select" -> {"p", "1", "i", "2", "q"}
      [] ov = "confirm-delete" -> {"y", "n", "q"}
      [] OTHER -> {}

\* C14: while an overlay is active no input event other than Escape and the
\* overlay's own keys -- no other key press and no mouse report -- changes
\* selectedIndex, quits the dashboard or starts an action.
C14_OverlayExclusive ==
    state.overlay # NULL =>
        /\ \A ev \in MouseEvents :
              LET m == onData(state, ev, leftWidth, draggingRef, termSize.columns)
              IN  Reduce(state, m.out.acts).selectedIndex = state.selectedIndex
        /\ \A key \in Keys, env \in Env :
              (key.special # "escape" /\ key.input \notin OwnInputs(state.overlay)) =>
                  LET o == useInput(state, key, repoRootRef, inTmux, env)
                      t == Reduce(state, o.acts)
                  IN  /\ t.selectedIndex = state.selectedIndex /\ t.overlay = state.overlay
                      /\ o.fin = "no" /\ o.spawn = <<>> /\ o.calls = <<>>

\* C15: selectedIndex is never negative and, when the flat list is non-empty,
\* at most its last index, whatever keys, mouse reports and refreshes came.
C15_SelectedIndexInRange ==
    /\ state.selectedIndex >= 0
    /\ state.flatIssues # <<>> => state.selectedIndex <= Len(state.flatIssues) - 1


\* ------------------------------------------------------ loadDashboardData
MaxLoadIssues == 3
MaxWorktrees == 2

\* A fetched ticket: identifier, projectName (null when it has no project) and
\* its workflow state { name, type }.
StateOf(name, type) == [name |-> name, type |-> type]
\* fetchAssignedIssues: the i-th ticket is LoadIds[i]
LoadIds == <<"T1", "T2", "T3", "T4", "T5", "T6", "T7", "T8">>

LoadIssueLists ==
    LET LoadStates ==
            { StateOf("In Progress", "started"), StateOf("In Review", "started"),
              StateOf("Todo", "unstarted"), StateOf("Done", "completed") }
        LoadProjects == {NULL, "A"}
    IN  UNION { { [i \in 1..n |-> [identifier |-> LoadIds[i], projectName |-> pr[i],
                                   state |-> st[i]]] :
                    pr \in [1..n -> LoadProjects], st \in [1..n -> LoadStates] } :
                n \in 0..MaxLoadIssues }

\* listWorktrees: path, and what extractTicketId gives for the branch (null
\* when the worktree has no branch or the branch names no ticket)
\* A worktree as the load sees it: its path, its ticket id, and what git and gh
\* answer about it: the status output, the pull request of its branch (null
\* when there is none or gh fails) and the checks and reviews gh lists
\* when asked (null when gh fails).
Worktree(path, tid, gitStatus, pr, checks, reviews) ==
    [path |-> path, tid |-> tid, gitStatus |-> gitStatus, pr |-> pr,
     checksOut |-> checks, reviewsOut |-> reviews]

LoadPaths == <<"wt/a", "wt/b", "wt/c", "wt/d", "wt/e", "wt/f">>

\* clean worktrees without a pull request
LoadWorktrees ==
    UNION { { [i \in 1..n |-> Worktree(LoadPaths[i], t[i], "", NULL, NULL, NULL)] :
                t \in [1..n -> {NULL, "T1", "T9"}] } :
            n \in 0..MaxWorktrees }

\* worktrees clean or dirty, with or without a pull request, whose gh answers
\* on checks and reviews are a failure, empty lists or non-empty lists
EnrichWorktrees ==
    LET answers == { <<NULL, NULL>>, <<"[]", "[]">>, <<"[check]", "[review]">> }
        wts(i) == { Worktree(LoadPaths[i], t, st, pr, a[1], a[2]) :
                      t \in {"T1", "T9"}, st \in {"", " M file"},
                      pr \in {NULL, "#1"}, a \in answers }
    IN  UNION { { w \in [1..n -> UNION { wts(i) : i \in 1..n }] :
                    \A i \in 1..n : w[i] \in wts(i) } :
                n \in 0..MaxWorktrees }

\* Map.prototype.set on a Map kept as the sequence of its entries: a key that is
\* present keeps its position
mapSet(m, key, value) ==
    IF \E i \in 1..Len(m) : m[i].key = key
    THEN [i \in 1..Len(m) |-> IF m[i].key = key THEN [key |-> key, value |-> value]
                              ELSE m[i]]
    ELSE Append(m, [key |-> key, value |-> value])

mapHas(m, key) == \E i \in 1..Len(m) : m[i].key = key
mapGet(m, key) == m[CHOOSE i \in 1..Len(m) : m[i].key = key].value

\* for (const wt of worktrees) { ... wtMap.set(tid, ...) }
RECURSIVE buildWtMap(_, _)
buildWtMap(worktrees, m) ==
    IF worktrees = <<>> THEN m
    ELSE LET wt == Head(worktrees)
         IN  buildWtMap(Tail(worktrees),
                        IF wt.tid # NULL THEN mapSet(m, wt.tid, wt) ELSE m)

\* A DashboardIssue: the ticket's fields, worktree (false for null) with its
\* path, dirty and gitStatus, then pr, checks, reviews, and the gh listings
\* that were requested for it.
DashboardIssue(identifier, projectName, st, worktree, path, dirty, gitStatus, pr, checks, reviews, asked) ==
    [identifier |-> identifier, projectName |-> projectName, state |-> st,
     worktree |-> worktree, path |-> path, dirty |-> dirty, gitStatus |-> gitStatus,
     pr |-> pr, checks |-> checks, reviews |-> reviews, asked |-> asked]

\* enrichment that lists checks and reviews whether or not there is a pull request
withWorktreeAlwaysAsking(identifier, projectName, st, wt) ==
    DashboardIssue(identifier, projectName, st, TRUE, wt.path, wt.gitStatus # "",
                   wt.gitStatus, wt.pr, wt.checksOut, wt.reviewsOut,
                   {"checks", "reviews"})

\* worktreeInfo, prInfo, checksInfo and reviewsInfo of a worktree
withWorktree(identifier, projectName, st, wt) ==
    DashboardIssue(identifier, projectName, st, TRUE, wt.path,
                   wt.gitStatus # "",   \* Boolean(gitStatusOutput)
                   wt.gitStatus, wt.pr,
                   IF wt.pr # NULL THEN wt.checksOut ELSE NULL,
                   IF wt.pr # NULL THEN wt.reviewsOut ELSE NULL,
                   IF wt.pr # NULL THEN {"checks", "reviews"} ELSE {})

\* the DashboardIssue of a fetched ticket
enrich(issue, wtMap) ==
    IF mapHas(wtMap, issue.identifier)
    THEN withWorktree(issue.identifier, issue.projectName, issue.state,
                      mapGet(wtMap, issue.identifier))
    ELSE DashboardIssue(issue.identifier, issue.projectName, issue.state,
                        FALSE, NULL, FALSE, NULL, NULL, NULL, NULL, {})

\* the DashboardIssue of a worktree no fetched ticket consumed
orphanOf(entry) ==
    withWorktree(entry.key, NULL, StateOf("Orphaned", "orphaned"), entry.value)

\* the filter dropped: every worktree entry becomes an orphan
filterMapAll(m, consumed) == [i \in 1..Len(m) |-> orphanOf(m[i])]

RECURSIVE filterMap(_, _)
filterMap(m, consumed) ==
    IF m = <<>> THEN <<>>
    ELSE (IF Head(m).key \in consumed THEN <<>> ELSE <<orphanOf(Head(m))>>)
         \o filterMap(Tail(m), consumed)

\* for (const di of enriched) { ... groupMap.set(key, list) }
RECURSIVE groupByProject(_, _)
groupByProject(enriched, m) ==
    IF enriched = <<>> THEN m
    ELSE LET di == Head(enriched)
             key == IF di.projectName # NULL THEN di.projectName ELSE "No Project"
             list == IF mapHas(m, key) THEN mapGet(m, key) ELSE <<>>
         IN  groupByProject(Tail(enriched), mapSet(m, key, Append(list, di)))

\* for (const di of issues) { ... statusMap ... }
RECURSIVE groupByStatus(_, _)
groupByStatus(issues, m) ==
    IF issues = <<>> THEN m
    ELSE LET di == Head(issues)
             statusName == di.state.name
         IN  groupByStatus(Tail(issues),
                IF mapHas(m, statusName)
                THEN LET existing == mapGet(m, statusName)
                     IN  mapSet(m, statusName,
                                [existing EXCEPT !.issues = Append(@, di)])
                ELSE mapSet(m, statusName,
                            [name |-> statusName, type |-> di.state.type,
                             issues |-> <<di>>]))

\* a comparison that ignores the type
noPriority(type) == 0

\* statusTypePriority[type] ?? 99
statusTypePriority(type) ==
    CASE type = "started" -> 0
      [] type = "unstarted" -> 1
      [] type = "backlog" -> 2
      [] type = "triage" -> 3
      [] OTHER -> 99

\* Array.prototype.sort with the comparator a - b on priorities: stable
RECURSIVE insertSorted(_, _)
insertSorted(sorted, sg) ==
    IF sorted = <<>> THEN <<sg>>
    ELSE IF statusTypePriority(sorted[Len(sorted)].type) <= statusTypePriority(sg.type)
    THEN Append(sorted, sg)
    ELSE Append(insertSorted(SubSeq(sorted, 1, Len(sorted) - 1), sg), sorted[Len(sorted)])

RECURSIVE sortStatusGroups(_, _)
sortStatusGroups(sgs, sorted) ==
    IF sgs = <<>> THEN sorted
    ELSE sortStatusGroups(Tail(sgs), insertSorted(sorted, Head(sgs)))

mapValues(m) == [i \in 1..Len(m) |-> m[i].value]

\* loadDashboardData once the ticket fetch resolved with issues
loadGroups(issues, worktrees) ==
    LET wtMap == buildWtMap(worktrees, <<>>)
        enriched == [i \in 1..Len(issues) |-> enrich(issues[i], wtMap)]
        consumedTicketIds == { issues[i].identifier : i \in
                                 { j \in 1..Len(issues) : mapHas(wtMap, issues[j].identifier) } }
        orphans == filterMap(wtMap, consumedTicketIds)
        groupMap == groupByProject(enriched, <<>>)
        groups == [i \in 1..Len(groupMap) |->
                     [name |-> groupMap[i].key,
                      statusGroups |->
                          sortStatusGroups(mapValues(groupByStatus(groupMap[i].value, <<>>)),
                                           <<>>)]]
    IN  IF Len(orphans) > 0
        THEN Append(groups, [name |-> "Orphaned Worktrees",
                             statusGroups |-> << [name |-> "Orphaned", type |-> "orphaned",
                                                  issues |-> orphans] >>])
        ELSE groups

\* loadDashboardData; fetched is false when fetchAssignedIssues gave null (the
\* ticket source could not be queried)
loadDashboardData(fetched, issues, worktrees) ==
    IF ~fetched THEN [rejected |-> TRUE, groups |-> <<>>, flatIssues |-> <<>>]
    ELSE LET groups == loadGroups(issues, worktrees)
         IN  [rejected |-> FALSE, groups |-> groups, flatIssues |-> flatten(groups)]

LoadInit ==
    /\ state = initialState
    /\ tasks = EmptyBag
    /\ repoRootRef = TRUE
    /\ inTmux = FALSE
    /\ exited = FALSE
    /\ draggingRef = FALSE
    /\ termSize = [columns |-> 80, rows |-> 24]
    /\ leftWidth = initialLeftWidth(termSize.columns)
    /\ terminal = mounted
    /\ \E fetched \in BOOLEAN, is \in LoadIssueLists, wts \in LoadWorktrees :
          /\ ~fetched => is = <<>>
          /\ lay = [pc |-> "load", fetched |-> fetched, issues |-> is, worktrees |-> wts,
                 out |-> [rejected |-> FALSE, groups |-> <<>>, flatIssues |-> <<>>]]

\* await loadDashboardData(repoRoot) settles
Load ==
    /\ lay.pc = "load"
    /\ lay' = [lay EXCEPT !.pc = "loaded",
                          !.out = loadDashboardData(lay.fetched, lay.issues, lay.worktrees)]
    /\ UNCHANGED <<state, tasks, repoRootRef, inTmux, exited, draggingRef, leftWidth, termSize, terminal>>

LoadSpec == LoadInit /\ [][Load]_vars

\* tickets without project, all of one status, over worktrees in every condition
EnrichInit ==
    /\ state = initialState
    /\ tasks = EmptyBag
    /\ repoRootRef = TRUE
    /\ inTmux = FALSE
    /\ exited = FALSE
    /\ draggingRef = FALSE
    /\ termSize = [columns |-> 80, rows |-> 24]
    /\ leftWidth = initialLeftWidth(termSize.columns)
    /\ terminal = mounted
    /\ \E is \in { l \in LoadIssueLists :
                      \A i \in 1..Len(l) : l[i].projectName = NULL
                                             /\ l[i].state.name = "Todo" },
           wts \in EnrichWorktrees :
          lay = [pc |-> "load", fetched |-> TRUE, issues |-> is, worktrees |-> wts,
                 out |-> [rejected |-> FALSE, groups |-> <<>>, flatIssues |-> <<>>]]

EnrichSpec == EnrichInit /\ [][Load]_vars


\* ------------------------------------------------------ claims C16, C17
Loaded == lay.pc = "loaded" /\ ~lay.out.rejected

projectKey(issue) == IF issue.projectName # NULL THEN issue.projectName ELSE "No Project"

\* position of the first fetched ticket satisfying P (Len + 1 when none)
FirstIssue(P(_)) ==
    LET hits == { i \in 1..Len(lay.issues) : P(lay.issues[i]) }
    IN  IF hits = {} THEN Len(lay.issues) + 1
        ELSE CHOOSE i \in hits : \A j \in hits : i <= j

IssuePos(id) == CHOOSE i \in 1..Len(LoadIds) : LoadIds[i] = id

IsOrphanGroup(g) == g.name = "Orphaned Worktrees"

FetchedIds == { lay.issues[i].identifier : i \in 1..Len(lay.issues) }

HasOrphan ==
    \E i \in 1..Len(lay.worktrees) :
        lay.worktrees[i].tid # NULL /\ lay.worktrees[i].tid \notin FetchedIds

ProjectGroupsOrdered ==
    LET gs == lay.out.groups
        n == IF gs # <<>> /\ IsOrphanGroup(gs[Len(gs)]) THEN Len(gs) - 1 ELSE Len(gs)
        seen(name) == LET P(t) == projectKey(t) = name IN FirstIssue(P)
    IN  /\ \A i \in 1..n : ~IsOrphanGroup(gs[i])
        /\ { gs[i].name : i \in 1..n } = { projectKey(lay.issues[i]) : i \in 1..Len(lay.issues) }
        /\ \A i, j \in 1..n : i < j => seen(gs[i].name) < seen(gs[j].name)

StatusGroupsOrdered ==
    \A g \in Range(lay.out.groups) :
        ~IsOrphanGroup(g) =>
            LET sgs == g.statusGroups
                seen(name) == LET P(t) == projectKey(t) = g.name /\ t.state.name = name
                              IN  FirstIssue(P)
                prio(type) == CASE type = "started" -> 0 [] type = "unstarted" -> 1
                                [] type = "backlog" -> 2 [] type = "triage" -> 3
                                [] OTHER -> 4
            IN  /\ \A i, j \in 1..Len(sgs) : i < j =>
                     \/ prio(sgs[i].type) < prio(sgs[j].type)
                     \/ /\ prio(sgs[i].type) = prio(sgs[j].type)
                        /\ seen(sgs[i].name) < seen(sgs[j].name)
                /\ \A i \in 1..Len(sgs) :
                     LET is == sgs[i].issues
                     IN  /\ { is[k].identifier : k \in 1..Len(is) } =
                            { x.identifier : x \in
                                { y \in Range(lay.issues) :
                                    projectKey(y) = g.name /\ y.state.name = sgs[i].name } }
                         /\ is # <<>>
                         /\ \A k, l \in 1..Len(is) :
                              k < l => IssuePos(is[k].identifier) < IssuePos(is[l].identifier)

OrphanGroupLast ==
    LET gs == lay.out.groups
    IN  /\ HasOrphan <=> (\E i \in 1..Len(gs) : IsOrphanGroup(gs[i]))
        /\ \A i \in 1..Len(gs) : IsOrphanGroup(gs[i]) => i = Len(gs)

OrphanIssues ==
    LET gs == lay.out.groups
    IN  IF gs # <<>> /\ IsOrphanGroup(gs[Len(gs)])
        THEN gs[Len(gs)].statusGroups[1].issues ELSE <<>>

\* C17: every worktree whose ticket identifier matches no fetched ticket has
\* exactly one DashboardIssue with that identifier, in the "Orphaned
\* Worktrees" group, of state type orphaned and with a worktree; and no
\* worktree matched to a fetched ticket appears as an orphan.
C17_Orphans ==
    Loaded =>
        LET os == OrphanIssues
        IN  /\ \A i \in 1..Len(lay.worktrees) :
                 LET tid == lay.worktrees[i].tid
                 IN  (tid # NULL /\ tid \notin FetchedIds) =>
                        /\ Cardinality({ k \in 1..Len(os) : os[k].identifier = tid }) = 1
                        /\ Cardinality({ k \in 1..Len(lay.out.flatIssues) :
                                           lay.out.flatIssues[k].identifier = tid }) = 1
            /\ \A k \in 1..Len(os) :
                 /\ os[k].identifier \notin FetchedIds
                 /\ os[k].state.type = "orphaned"
                 /\ os[k].worktree
                 /\ \E i \in 1..Len(lay.worktrees) :
                       /\ lay.worktrees[i].tid = os[k].identifier
                       /\ lay.worktrees[i].path = os[k].path
            /\ \A g \in Range(lay.out.groups) :
                 ~IsOrphanGroup(g) =>
                    \A sg \in Range(g.statusGroups) : \A x \in Range(sg.issues) :
                       x.state.type # "orphaned" /\ x.identifier \in FetchedIds

\* one worktree matched to the fetched ticket T1 and one on T9, which no
\* fetched ticket has: T9 is the only orphan
C17_Witness ==
    /\ Loaded
    /\ \E i \in 1..Len(lay.issues) : lay.issues[i].identifier = "T1"
    /\ Len(lay.worktrees) = 2
    /\ lay.worktrees[1].tid = "T1"
    /\ lay.worktrees[2].tid = "T9"
    /\ Len(OrphanIssues) = 1
    /\ OrphanIssues[1].identifier = "T9"
    /\ OrphanIssues[1].path = "wt/b"


\* ------------------------------------------------------ claim C18
\* loadDashboardData with the ticket source unavailable: rejected, no data
LoadRejects ==
    \A wts \in LoadWorktrees :
        LET r == loadDashboardData(FALSE, <<>>, wts)
        IN  r.rejected /\ r.groups = <<>> /\ r.flatIssues = <<>>

\* the settled load was applied as data
DataApplied ==
    \E d \in DataSets :
        state' = listScrollEffect(
                    reducer(state, [type |-> "SET_DATA", groups |-> d.groups,
                                    flatIssues |-> d.flatIssues]), termSize.rows)

\* the settled load became the error state, the data untouched
ErrorApplied ==
    /\ state'.error # NULL
    /\ ~state'.loading
    /\ ~state'.refreshing
    /\ state'.groups = state.groups
    /\ state'.flatIssues = state.flatIssues

\* C18: when the ticket source cannot be queried loadDashboardData rejects
\* with no data, and every settlement of refresh's load either applies data
\* or leaves the error state (error non-null, loading and refreshing false);
\* the rejection never leaves refresh and the dashboard keeps running.
C18_RejectionBecomesError ==
    [][ /\ LoadRejects
        /\ Consumed("refresh", "load") => (~exited' /\ (DataApplied \/ ErrorApplied)) ]_vars

\* a rejected load was turned into the error state while a refresh was shown
C18_Witness ==
    /\ state.error = "Failed to fetch"
    /\ ~state.loading
    /\ ~state.refreshing
    /\ ~exited


\* ------------------------------------------------------ ways out
\* A signal ends the process; the dashboard registers no handler for it.
Signal ==
    /\ Running
    /\ exited' = TRUE
    /\ terminal' \in processEnd("signal", terminal)
    /\ UNCHANGED <<state, tasks, repoRootRef, inTmux, lay, draggingRef, leftWidth, termSize>>

\* The keys that leave the dashboard, open the browser or remove a worktree.
ExitKeys ==
    { k \in Keys : (k.special \in {"escape", "return"})
                   \/ k.input \in {"q", "o", "p", "d", "y", "n", "j", "k"} }

\* The dashboard with its ways out: quit, hand-off to the shell, a handler that
\* throws, a signal.
ExitNext ==
    \/ Input(ExitKeys)
    \/ Signal
    \/ TimerFire
    \/ RefreshDone(Data({DataNone, DataBoth, DataSwap}))
    \/ DeleteDone

ExitSpec == Init /\ [][ExitNext]_vars

\* ------------------------------------------------------ claims C19, C20
\* C19: on every exit path (quit key, hand-off to the shell, error, signal)
\* the terminal is restored before the process ends: the alternate screen is
\* left, the cursor is shown and mouse reporting is disabled.
C19_TerminalRestored ==
    exited => terminal = Terminal(FALSE, FALSE, FALSE)

\* C20: no failure of an external collaborator invoked from a key handler
\* escapes as an uncaught exception: in every state of the running dashboard,
\* whatever a key's collaborator does, the handler returns normally.
C20_NoFailureEscapes ==
    Running => \A o \in inputOutcomes(ExitKeys) : o.fin # "crash"


\* ------------------------------------------------------ claims C21, C22
\* C21: SELECT(i) sets selectedIndex to i and detailScrollOffset to 0 and
\* leaves every other field of the state unchanged.
C21_SelectFrame ==
    \A i \in -1..MaxIssues :
        LET n == reducer(state, Select(i))
        IN  /\ n.selectedIndex = i
            /\ n.detailScrollOffset = 0
            /\ DOMAIN n = DOMAIN state
            /\ \A f \in DOMAIN state \ {"selectedIndex", "detailScrollOffset"} :
                  n[f] = state[f]

\* two issues loaded, an overlay open and the detail pane scrolled: a SELECT
\* here moves the selection and resets the scroll
C21_Witness ==
    /\ Len(state.flatIssues) = 2
    /\ state.selectedIndex = 0
    /\ state.detailScrollOffset > 0
    /\ state.overlay # NULL

\* the detail scroll offsets one input can leave, from offset d
DetailSteps(d) == {d, d + 3, IF d - 3 < 0 THEN 0 ELSE d - 3, 0}

\* C22: detailScrollOffset is never negative: shifted up/down keys and wheel
\* events over the detail pane move it by 3 clamped at 0, SELECT and SET_DATA
\* reset it to 0, and nothing else changes it.
C22_DetailScrollNonNegative ==
    /\ state.detailScrollOffset >= 0
    /\ \A ev \in MouseEvents :
          Reduce(state, onData(state, ev, leftWidth, draggingRef,
                               termSize.columns).out.acts).detailScrollOffset
             \in DetailSteps(state.detailScrollOffset)
    /\ \A o \in inputOutcomes(MouseKeys) :
          Reduce(state, o.acts).detailScrollOffset \in DetailSteps(state.detailScrollOffset)
    /\ \A d \in DataSets :
          reducer(state, [type |-> "SET_DATA", groups |-> d.groups,
                          flatIssues |-> d.flatIssues]).detailScrollOffset = 0

\* the detail pane is scrolled down and the pointer is over it: the next wheel-up
\* report or shifted up key meets the clamp
C22_Witness ==
    /\ Running
    /\ state.detailScrollOffset = 3
    /\ state.overlay = NULL
    /\ state.flatIssues # <<>>


\* ------------------------------------------------------ list scroll tracking
MaxScrollOffset == 4
\* terminal heights, from one with an empty list window to a usual one
ScrollRows == {3, 4, 5, 6, 8}

\* A rendered list: a group structure, a selected issue, a scroll offset left by
\* earlier renders, a terminal height.
ScrollInit ==
    /\ tasks = EmptyBag
    /\ repoRootRef = TRUE
    /\ inTmux = FALSE
    /\ exited = FALSE
    /\ lay = [LayIdle EXCEPT !.pc = "track"]
    /\ draggingRef = FALSE
    /\ \E rows \in ScrollRows : termSize = [columns |-> 80, rows |-> rows]
    /\ leftWidth = initialLeftWidth(termSize.columns)
    /\ terminal = mounted
    /\ \E g \in { h \in LayGroups : Len(h) = 1 }, off \in 0..MaxScrollOffset :
          \E i \in 0..(Len(flatten(g)) - 1) :
             state = [initialState EXCEPT !.groups = g, !.flatIssues = flatten(g),
                                          !.loading = FALSE, !.selectedIndex = i,
                                          !.listScrollOffset = off]

\* the effect runs after a render and dispatches SCROLL_LIST
ScrollTrack ==
    /\ lay.pc = "track"
    /\ listScrollTrack(state, termSize.rows) # state.listScrollOffset
    /\ state' = reducer(state, [type |-> "SCROLL_LIST",
                                offset |-> listScrollTrack(state, termSize.rows)])
    /\ UNCHANGED <<tasks, repoRootRef, inTmux, exited, lay, draggingRef, leftWidth,
                   termSize, terminal>>

\* React runs a pending effect after every render
ScrollSpec == ScrollInit /\ [][ScrollTrack]_vars /\ WF_vars(ScrollTrack)

\* ------------------------------------------------------ claim C23
\* the effect dispatches nothing and the selected row is in the list window
ScrollSettled ==
    LET rowIdx == getRowIndexForFlatIndex(state.groups, state.selectedIndex)
    IN  /\ listScrollTrack(state, termSize.rows) = state.listScrollOffset
        /\ state.listScrollOffset >= 0
        /\ state.listScrollOffset <= rowIdx
        /\ rowIdx < state.listScrollOffset + maxVisibleOf(termSize.rows)

\* C23: for every group structure, selection and window height the list scroll
\* tracking reaches a fixed point after finitely many runs, and there the
\* selected issue's row is inside [listScrollOffset, listScrollOffset +
\* maxVisible) with listScrollOffset >= 0.
C23_ScrollSettles == <>[]ScrollSettled

\* the same for windows that show at least two list rows
C23_ScrollSettlesTall == (termSize.rows >= 5) => <>[]ScrollSettled


\* ------------------------------------------------------ claim C24
\* the rows of the list, top to bottom: the column labels, then per project its
\* header and per status group its header and its issues
RECURSIVE StatusRowKinds(_)
StatusRowKinds(sgs) ==
    IF sgs = <<>> THEN <<>>
    ELSE <<"status">> \o [i \in 1..Len(Head(sgs).issues) |-> "issue"]
         \o StatusRowKinds(Tail(sgs))

RECURSIVE GroupRowKinds(_)
GroupRowKinds(groups) ==
    IF groups = <<>> THEN <<>>
    ELSE <<"project">> \o StatusRowKinds(Head(groups).statusGroups)
         \o GroupRowKinds(Tail(groups))

RowKinds(groups) == <<"label">> \o GroupRowKinds(groups)

\* a left press in the list pane at terminal row r of a loaded dashboard that
\* shows groups scrolled by off
ClickActs(groups, off, r) ==
    onData([initialState EXCEPT !.groups = groups, !.flatIssues = flatten(groups),
                                !.loading = FALSE, !.listScrollOffset = off],
           MouseEvent(0, 1, r, FALSE), initialLeftWidth(termSize.columns), FALSE,
           termSize.columns).out.acts

\* C24: getFlatIndexForListRow returns null for row 0, for every project
\* header row, for every status header row and for every row past the last
\* issue, and the index of the issue for every issue row; a click on a row that
\* maps to null dispatches no SELECT, a click on an issue row selects it.
C24_HeaderRowsNull ==
    LET kinds == RowKinds(lay.groups)
        issueRow(row) == row + 1 <= Len(kinds) /\ kinds[row + 1] = "issue"
        before(row) == Cardinality({ q \in 1..row : kinds[q] = "issue" })
    IN  /\ \A row \in 0..(Len(kinds) + 2) :
              getFlatIndexForListRow(lay.groups, row) =
                 IF issueRow(row) THEN before(row) ELSE NoIndex
        /\ \A off \in 0..2, r \in 2..(Len(kinds) + 4) :
              ClickActs(lay.groups, off, r) =
                 IF issueRow(off + r - 2) THEN <<Select(before(off + r - 2))>> ELSE <<>>

\* the row of the first index past a two-project list was mapped back: row 0,
\* the column labels, gives null
C24_Witness ==
    /\ lay.pc = "back" /\ Len(lay.groups) = 2
    /\ lay.flatIndex = Len(flatten(lay.groups))
    /\ lay.row = 0
    /\ lay.back = NoIndex


\* ------------------------------------------------------ claim C25
\* what each list row shows: the issue, or a header
RECURSIVE StatusRowItems(_)
StatusRowItems(sgs) ==
    IF sgs = <<>> THEN <<>>
    ELSE <<[header |-> "status"]>> \o Head(sgs).issues \o StatusRowItems(Tail(sgs))

RECURSIVE GroupRowItems(_)
GroupRowItems(groups) ==
    IF groups = <<>> THEN <<>>
    ELSE <<[header |-> "project"]>> \o StatusRowItems(Head(groups).statusGroups)
         \o GroupRowItems(Tail(groups))

RowItems(groups) == <<[header |-> "label"]>> \o GroupRowItems(groups)

\* C25: the flattened list returned by loadDashboardData is the issues of the
\* groups in canonical order: flatIssues[i] is the issue on the row that
\* getRowIndexForFlatIndex gives for i, and its length is the number of issues
\* in the groups.
C25_FlatIsCanonical ==
    Loaded =>
        LET groups == lay.out.groups
            flat == lay.out.flatIssues
            items == RowItems(groups)
        IN  /\ \A i \in 0..(Len(flat) - 1) :
                  LET row == getRowIndexForFlatIndex(groups, i)
                  IN  row > 0 /\ row + 1 <= Len(items) /\ items[row + 1] = flat[i + 1]
            /\ getRowIndexForFlatIndex(groups, Len(flat)) = 0
            /\ Len(flat) = Cardinality({ r \in 1..Len(items) : "identifier" \in DOMAIN items[r] })

\* tickets T1 (project A), T2 (no project), T3 (project A): grouping moves T3
\* before T2 in the flattened list
C25_Witness ==
    /\ Loaded
    /\ Len(lay.out.groups) = 2
    /\ [i \in 1..Len(lay.out.flatIssues) |-> lay.out.flatIssues[i].identifier]
          = <<"T1", "T3", "T2">>


\* ------------------------------------------------------ claim C26
\* the worktree the load keeps for a ticket id: the last one listed with it
WorktreeFor(tid) ==
    lay.worktrees[CHOOSE i \in 1..Len(lay.worktrees) :
                     /\ lay.worktrees[i].tid = tid
                     /\ \A j \in (i + 1)..Len(lay.worktrees) : lay.worktrees[j].tid # tid]

\* C26: in the result of loadDashboardData a ticket with no matching worktree
\* has worktree, pr, checks and reviews null; a ticket with a matching worktree
\* but no pull request has pr, checks and reviews null (not empty lists);
\* checks and reviews are listed only when a pull request exists; and
\* worktree.dirty is true exactly when the status output is non-empty.
C26_EnrichmentNulls ==
    Loaded =>
        \A k \in 1..Len(lay.out.flatIssues) :
            LET di == lay.out.flatIssues[k]
                matched == \E i \in 1..Len(lay.worktrees) :
                              lay.worktrees[i].tid = di.identifier
            IN  /\ di.worktree <=> matched
                /\ ~matched =>
                      /\ di.pr = NULL /\ di.checks = NULL /\ di.reviews = NULL
                      /\ di.asked = {}
                /\ matched =>
                      LET wt == WorktreeFor(di.identifier)
                      IN  /\ di.dirty <=> (wt.gitStatus # "")
                          /\ di.pr = wt.pr
                          /\ wt.pr = NULL =>
                                /\ di.checks = NULL /\ di.reviews = NULL
                                /\ di.asked = {}
                          /\ wt.pr # NULL =>
                                /\ di.checks = wt.checksOut /\ di.reviews = wt.reviewsOut
                                /\ di.asked = {"checks", "reviews"}

\* ticket T1 with a matching clean worktree and no pull request, while gh would
\* list checks if asked: dirty false, pr, checks and reviews null
C26_Witness ==
    /\ Loaded
    /\ Len(lay.worktrees) = 1
    /\ lay.worktrees[1] = Worktree("wt/a", "T1", "", NULL, "[check]", "[review]")
    /\ Len(lay.out.flatIssues) = 1
    /\ lay.out.flatIssues[1].identifier = "T1"
    /\ lay.out.flatIssues[1].worktree
    /\ ~lay.out.flatIssues[1].dirty
    /\ lay.out.flatIssues[1].checks = NULL


\* ------------------------------------------------------ claim C27
\* this step ends a creation with CREATION_DONE and hands off to the agent
\* launch: a tmux window (message and delayed refresh) or the exit to the shell
LaunchStep ==
    /\ state.creatingForTicket # NULL
    /\ state'.creatingForTicket = NULL
    /\ state'.creationError = NULL
    /\ \/ inTmux /\ Spawned("timer", "refresh") /\ state'.actionMessage \in {Info, Failed}
       \/ ~inTmux /\ exited' /\ ~terminal'.altScreen

\* this step ends a creation with CREATION_ERROR and a failure message
CreationFailedStep ==
    /\ state'.creatingForTicket = NULL
    /\ state'.creationError # NULL
    /\ state'.actionMessage = Failed
    /\ ~exited'
    /\ ~Spawned("timer", "refresh")
    /\ BagCardinality(tasks') = BagCardinality(tasks) - 1

\* C27: in the create-and-launch workflow the launch hand-off happens exactly
\* when createWorktree succeeded: the settling of fetch/checkout/pull always
\* goes on to createWorktree, the settling of the init script always launches,
\* and a createWorktree failure clears the creating marker, sets a failure
\* message and launches nothing.
C27_LaunchIffCreated ==
    [][/\ Consumed("create", "fetch")
            => /\ Spawned("create", "worktree")
               /\ state'.creatingForTicket = state.creatingForTicket
               /\ state'.creationError = NULL /\ ~exited'
       /\ Consumed("create", "worktree")
            => \/ CreationFailedStep
               \/ /\ Spawned("create", "init") /\ ~exited'
                  /\ state'.creatingForTicket = state.creatingForTicket
                  /\ state'.creationError = NULL
               \/ LaunchStep
       /\ Consumed("create", "init") => LaunchStep
       /\ LaunchStep => Consumed("create", "worktree") \/ Consumed("create", "init")
       /\ Spawned("create", "worktree") => Consumed("create", "fetch")
       /\ Spawned("create", "init") => Consumed("create", "worktree")]_vars


\* ------------------------------------------------------ claim C28
\* The dashboard with the delete flow over worktrees that are dirty and clean.
DeleteNext ==
    \/ Input({ k \in Keys : k.special = "escape"
                            \/ k.input \in {"d", "y", "n", "q", "j", "k", "x"} })
    \/ TimerFire
    \/ RefreshDone(Data({DataBoth, DataSwap}))
    \/ DeleteDone

DeleteSpec == Init /\ [][DeleteNext]_vars

\* the removals a handler outcome starts
Removals(o) == { n \in 1..Len(o.spawn) : o.spawn[n].k = "delete" }
CallsRemove(o) == \E n \in 1..Len(o.calls) : o.calls[n] = "removeWorktree"

\* C28: removeWorktree is invoked only by y in the confirm-delete overlay, on
\* the selected issue's worktree and with force equal to that worktree's dirty
\* flag; n, Escape and q close the overlay and remove nothing; no mouse report
\* and no settling task invokes it.
C28_RemoveOnlyConfirmed ==
    [][/\ \A key \in Keys, env \in Env :
             LET o == useInput(state, key, repoRootRef, inTmux, env)
             IN  /\ CallsRemove(o) <=> Removals(o) # {}
                 /\ Removals(o) # {} =>
                       /\ key.input = "y"
                       /\ state.overlay = "confirm-delete"
                       /\ HasIssue(state.flatIssues, state.selectedIndex)
                       /\ LET di == state.flatIssues[state.selectedIndex + 1]
                          IN  /\ di.worktree
                              /\ Cardinality(Removals(o)) = 1
                              /\ \A n \in Removals(o) :
                                    o.spawn[n] = Task("delete", "remove", di.identifier, di.dirty)
                 /\ (state.overlay = "confirm-delete"
                     /\ (key.input \in {"n", "q"} \/ key.special = "escape")) =>
                       /\ o.spawn = <<>> /\ o.calls = <<>> /\ o.fin = "no"
                       /\ Reduce(state, o.acts).overlay = NULL
                       /\ Reduce(state, o.acts).deletingForTicket = state.deletingForTicket
       /\ \A ev \in MouseEvents :
             LET m == onData(state, ev, leftWidth, draggingRef, termSize.columns)
             IN  ~CallsRemove(m.out) /\ Removals(m.out) = {}
       /\ Spawned("delete", "remove") =>
             /\ state.overlay = "confirm-delete"
             /\ state'.overlay = NULL
             /\ HasIssue(state.flatIssues, state.selectedIndex)
             /\ state'.deletingForTicket = state.flatIssues[state.selectedIndex + 1].identifier]_vars

\* a clean worktree is being removed without force while a dirty one is listed
C28_Witness ==
    /\ \E t \in BagToSet(tasks) : t.k = "delete" /\ ~t.flag /\ t.t = state.deletingForTicket
    /\ state.overlay = NULL
    /\ \E n \in 1..Len(state.flatIssues) : state.flatIssues[n].dirty


\* ------------------------------------------------------ claim C29
\* the creations a handler outcome starts
Creations(o) == { n \in 1..Len(o.spawn) : o.spawn[n].k = "create" }

\* the work mode a key of the mode-select overlay chooses
ModeOf(key) ==
    CASE key.input \in {"p", "1"} -> "plan"
      [] key.input \in {"i", "2"} -> "implement"
      [] OTHER -> NULL

\* C29: with an init script in the repository, choosing a work mode for an
\* issue without a worktree opens the confirm-setup overlay with that mode and
\* starts nothing; the create-and-launch workflow is started only by y or n in
\* that overlay (running the script for y, not for n), and Escape there closes
\* the overlay without starting it.
C29_SetupAskedFirst ==
    [][/\ \A key \in Keys, env \in Env :
             LET o == useInput(state, key, repoRootRef, inTmux, env)
                 after == Reduce(state, o.acts)
             IN  /\ (/\ state.overlay = "mode-select"
                     /\ ModeOf(key) # NULL
                     /\ HasIssue(state.flatIssues, state.selectedIndex)
                     /\ ~state.flatIssues[state.selectedIndex + 1].worktree
                     /\ env.hasInit) =>
                       /\ after.overlay = "confirm-setup"
                       /\ after.setupMode = ModeOf(key)
                       /\ after.creatingForTicket = state.creatingForTicket
                       /\ o.spawn = <<>> /\ o.calls = <<>> /\ o.fin = "no"
                 /\ (env.hasInit /\ Creations(o) # {}) =>
                       /\ state.overlay = "confirm-setup"
                       /\ key.input \in {"y", "n"}
                       /\ after.overlay = NULL
                       /\ \A n \in Creations(o) :
                             o.spawn[n] = Task("create", "fetch", after.creatingForTicket,
                                               key.input = "y")
                 /\ (state.overlay = "confirm-setup" /\ key.special = "escape") =>
                       /\ Creations(o) = {}
                       /\ after.overlay = NULL
                       /\ after.creatingForTicket = state.creatingForTicket
       /\ Spawned("create", "fetch") =>
             /\ state.overlay \in {"mode-select", "confirm-setup"}
             /\ state'.overlay = NULL]_vars

\* the user is being asked: the overlay is open with the chosen mode on an issue
\* without a worktree, and no creation has been started
C29_Witness ==
    /\ state.overlay = "confirm-setup"
    /\ state.setupMode = "implement"
    /\ HasIssue(state.flatIssues, state.selectedIndex)
    /\ ~state.flatIssues[state.selectedIndex + 1].worktree
    /\ state.creatingForTicket = NULL
    /\ InFlight("create") = 0


\* ------------------------------------------------------ claim C30
\* The widest terminal; the narrower ones lie around 2 * minW + sepW = 43 columns.
MaxColumns == 80
DragColumns ==
    {30, 2 * minW + sepW - 1, 2 * minW + sepW, 2 * minW + sepW + 1, 60, MaxColumns}

\* the reports of the left button: press, drag and release, on every column
DragEvents ==
    { MouseEvent(b, c, 1, rel) : b \in {0, 32}, c \in 1..termSize.columns, rel \in BOOLEAN }

DragInit ==
    /\ state = initialState
    /\ tasks = SetToBag({Timer("init")})
    /\ repoRootRef = FALSE
    /\ inTmux = FALSE
    /\ exited = FALSE
    /\ lay = LayIdle
    /\ draggingRef = FALSE
    /\ termSize \in { [columns |-> c, rows |-> 24] : c \in DragColumns }
    /\ leftWidth = initialLeftWidth(termSize.columns)
    /\ terminal = mounted

\* process.stdin.on("data", onData): a report of the left button arrives
DragData ==
    /\ Running
    /\ \E m \in { onData(state, ev, leftWidth, draggingRef, termSize.columns) :
                    ev \in DragEvents } :
          /\ state' = listScrollEffect(Reduce(state, m.out.acts), termSize.rows)
          /\ draggingRef' = m.dragging
          /\ leftWidth' = m.leftWidth
          /\ UNCHANGED <<tasks, repoRootRef, inTmux, exited, lay, termSize, terminal>>

\* The divider dragged in terminals of several widths.
DragSpec == DragInit /\ [][DragData]_vars

\* const rightWidth = columns - leftWidth - separatorWidth
rightWidth(columns, lw) == columns - lw - sepW

\* what the drag report on column col leaves
Dragged(col) ==
    onData(state, MouseEvent(32, col, 1, FALSE), leftWidth, draggingRef, termSize.columns)

\* a drag report while no drag is in progress changes neither the split nor
\* the dragging flag
IdleDragIgnored ==
    ~draggingRef =>
        \A col \in 1..termSize.columns :
            /\ Dragged(col).leftWidth = leftWidth
            /\ Dragged(col).dragging = FALSE
            /\ Dragged(col).out = Nothing

\* C30: after any drag-resize event the list pane and the detail pane are both
\* at least minW = 20 columns wide, for every terminal width and mouse column;
\* drag reports received while no drag is in progress do not change the split.
C30_MinWidths ==
    /\ draggingRef =>
          \A col \in 1..termSize.columns :
              /\ Dragged(col).leftWidth >= minW
              /\ rightWidth(termSize.columns, Dragged(col).leftWidth) >= minW
    /\ IdleDragIgnored

\* C30, amended: after any drag-resize event the list pane is at least minW
\* columns wide; the detail pane is at least minW columns wide when the terminal
\* has at least 2 * minW + sepW = 43 columns, and in a narrower terminal the
\* list pane is exactly minW wide and the detail pane gets the remainder;
\* drag reports received while no drag is in progress do not change the split.
C30_MinWidthsWhereTheyFit ==
    /\ draggingRef =>
          \A col \in 1..termSize.columns :
              /\ Dragged(col).leftWidth >= minW
              /\ Dragged(col).dragging
              /\ IF termSize.columns >= 2 * minW + sepW
                 THEN /\ rightWidth(termSize.columns, Dragged(col).leftWidth) >= minW
                      /\ (minW <= col - 1 /\ col - 1 <= termSize.columns - sepW - minW)
                            => Dragged(col).leftWidth = col - 1
                 ELSE Dragged(col).leftWidth = minW
    /\ IdleDragIgnored

\* a drag in progress has moved the divider to the widest list pane a terminal
\* of MaxColumns allows
C30_Witness ==
    /\ draggingRef
    /\ termSize.columns = MaxColumns
    /\ leftWidth = MaxColumns - sepW - minW
    /\ leftWidth # initialLeftWidth(termSize.columns)


\* ------------------------------------------------------ claim C31
\* the state after the SET_DATA of a refresh that resolved with d
AfterData(s, d) ==
    reducer(s, [type |-> "SET_DATA", groups |-> d.groups, flatIssues |-> d.flatIssues])

\* the selection is on an issue of the list, or at 0 of an empty list
CursorValid(s) ==
    IF s.flatIssues = <<>> THEN s.selectedIndex = 0
    ELSE HasIssue(s.flatIssues, s.selectedIndex)

\* s2 shows the data d and its selection follows the ticket selected in s
Supersedes(s, s2, d) ==
    /\ s2.groups = d.groups
    /\ s2.flatIssues = d.flatIssues
    /\ CursorValid(s2)
    /\ (selectedId(s) # NULL /\ Occurs(d.flatIssues, selectedId(s))) => selectedId(s2) = selectedId(s)

\* C31: when refreshes overlap, whatever order they complete in and whatever
\* each of them loaded, every completion leaves selectedIndex a valid index of
\* the displayed list, on the previously selected ticket if the applied data
\* has it, and the data displayed is that of the completion dispatched last.
C31_ConcurrentRefresh ==
    [][/\ Count("refresh", "load") >= 2 =>
             \A d \in DataSets, e \in DataSets :
                 /\ Supersedes(state, AfterData(state, d), d)
                 /\ Supersedes(AfterData(state, d), AfterData(AfterData(state, d), e), e)
       /\ SetDataStep =>
             /\ CursorValid(state')
             /\ \E d \in DataSets : /\ state'.groups = d.groups
                                    /\ state'.flatIssues = d.flatIssues
             /\ (selectedId(state) # NULL /\ Occurs(state'.flatIssues, selectedId(state)))
                   => selectedId(state') = selectedId(state)]_vars

\* two refreshes are in flight while T1 is selected below the first row
C31_Witness ==
    /\ Count("refresh", "load") >= 2
    /\ selectedId(state) = "T1"
    /\ state.selectedIndex = 1
    /\ state.refreshing


\* ------------------------------------------------ extractTicketId (C32)
\* A branch name is a sequence of characters: a lower-case and an upper-case
\* ASCII letter, the hyphen, a digit, and "/" for every other character.
MaxBranchLen == 5
BranchChars == {"a", "B", "-", "7", "/"}
Branches == SeqsUpTo(BranchChars, 0, MaxBranchLen)

isLetter(c) == c \in {"a", "B"}       \* [a-zA-Z]
isDigit(c) == c = "7"                 \* \d

\* a conversion that keeps the case
keepCase(w) == w

\* String.prototype.toUpperCase
toUpperCase(w) == [i \in 1..Len(w) |-> CASE w[i] = "a" -> "A" [] OTHER -> w[i]]

\* how many letters stand at i, i + 1, ... (a greedy [a-zA-Z]+)
RECURSIVE lettersRun(_, _)
lettersRun(v, i) ==
    IF i <= Len(v) /\ isLetter(v[i]) THEN 1 + lettersRun(v, i + 1) ELSE 0

\* how many digits stand at i, i + 1, ... (a greedy \d+)
RECURSIVE digitsRun(_, _)
digitsRun(v, i) ==
    IF i <= Len(v) /\ isDigit(v[i]) THEN 1 + digitsRun(v, i + 1) ELSE 0

\* /([a-zA-Z]+)-(\d+)/ tried at position i: the letters are taken greedily and
\* given back one by one until "-" and a digit follow; the digits are greedy.
\* The result is <<k, m>>, the lengths of the two groups, <<0, 0>> for no match.
matchAt(v, i) ==
    LET n == lettersRun(v, i)
        fits == { k \in 1..n : /\ i + k + 1 <= Len(v)
                               /\ v[i + k] = "-"
                               /\ isDigit(v[i + k + 1]) }
    IN  IF fits = {} THEN <<0, 0>>
        ELSE LET k == CHOOSE x \in fits : \A y \in fits : y <= x
             IN  <<k, digitsRun(v, i + k + 1)>>

\* String.prototype.match without the g flag: the first position that matches
RECURSIVE matchFrom(_, _)
matchFrom(v, i) ==
    IF i > Len(v) THEN [found |-> FALSE, groups |-> << <<>>, <<>> >>]
    ELSE LET km == matchAt(v, i)
         IN  IF km[1] > 0
             THEN [found |-> TRUE,
                   groups |-> << SubSeq(v, i, i + km[1] - 1),
                                 SubSeq(v, i + km[1] + 1, i + km[1] + km[2]) >>]
             ELSE matchFrom(v, i + 1)

\* extractTicketId(branch); null is found = FALSE
extractTicketId(branch) ==
    LET match == matchFrom(branch, 1)
    IN  IF match.found
        THEN [found |-> TRUE, id |-> toUpperCase(match.groups[1]) \o <<"-">> \o match.groups[2]]
        ELSE [found |-> FALSE, id |-> <<>>]

TicketInit ==
    /\ state = initialState
    /\ tasks = EmptyBag
    /\ repoRootRef = TRUE
    /\ inTmux = FALSE
    /\ exited = FALSE
    /\ draggingRef = FALSE
    /\ termSize = [columns |-> 80, rows |-> 24]
    /\ leftWidth = initialLeftWidth(termSize.columns)
    /\ terminal = mounted
    /\ \E b \in Branches :
          lay = [pc |-> "extract", branch |-> b, out |-> [found |-> FALSE, id |-> <<>>]]

Extract ==
    /\ lay.pc = "extract"
    /\ lay' = [lay EXCEPT !.pc = "extracted", !.out = extractTicketId(lay.branch)]
    /\ UNCHANGED <<state, tasks, repoRootRef, inTmux, exited, draggingRef, leftWidth, termSize, terminal>>

TicketSpec == TicketInit /\ [][Extract]_vars

\* ------------------------------------------------------ claim C32
\* the substrings of v made of letters, a hyphen and digits: <<start, letters, digits>>
TicketForms(v) ==
    { f \in (1..Len(v)) \X (1..Len(v)) \X (1..Len(v)) :
        /\ f[1] + f[2] + f[3] <= Len(v)
        /\ \A j \in f[1]..(f[1] + f[2] - 1) : v[j] \in {"a", "B"}
        /\ v[f[1] + f[2]] = "-"
        /\ \A j \in (f[1] + f[2] + 1)..(f[1] + f[2] + f[3]) : v[j] = "7" }

\* the first of them: the leftmost start, and all the digits that follow
FirstForm(v) ==
    CHOOSE f \in TicketForms(v) :
        \A g \in TicketForms(v) : f[1] < g[1] \/ (f[1] = g[1] /\ f[3] >= g[3])

UpperOf(c) == IF c = "a" THEN "A" ELSE c

\* C32: extractTicketId returns null exactly when the branch name has no
\* substring of letters, hyphen, digits; otherwise it returns the letters of the
\* first such substring in upper case, the hyphen and its digits.
C32_ExtractTicketId ==
    lay.pc = "extracted" =>
        LET v == lay.branch
        IN  IF TicketForms(v) = {} THEN ~lay.out.found
            ELSE LET f == FirstForm(v)
                 IN  /\ lay.out.found
                     /\ Len(lay.out.id) = f[2] + 1 + f[3]
                     /\ \A j \in 1..f[2] : lay.out.id[j] = UpperOf(v[f[1] + j - 1])
                     /\ lay.out.id[f[2] + 1] = "-"
                     /\ \A j \in 1..f[3] : lay.out.id[f[2] + 1 + j] = "7"

\* a lower-case ticket id behind a prefix that looks like one up to its hyphen
C32_Witness ==
    /\ lay.pc = "extracted"
    /\ lay.branch = <<"B", "-", "a", "-", "7">>
    /\ lay.out.found
    /\ lay.out.id = <<"A", "-", "7">>


\* ------------------------------------------------------ claim C33
\* the ticket whose worktree y would remove in state s, NULL when y would
\* remove nothing
RemovalTarget(s) ==
    LET o == useInput(s, Key("y", "none", FALSE), repoRootRef, inTmux,
                      [ok |-> TRUE, hasInit |-> FALSE, found |-> TRUE])
    IN  IF s.overlay = "confirm-delete" /\ Removals(o) # {}
        THEN o.spawn[CHOOSE n \in Removals(o) : TRUE].t
        ELSE NULL

\* C33: while the confirm-delete overlay stays open, no mouse report and no
\* SET_DATA of a refresh replaces the ticket whose worktree y removes by
\* another ticket: the removal is the one of the ticket the overlay was opened on.
C33_DeleteTargetFixed ==
    [][(/\ state.overlay = "confirm-delete"
        /\ state'.overlay = "confirm-delete"
        /\ RemovalTarget(state) # NULL
        /\ RemovalTarget(state') # NULL)
          => RemovalTarget(state') = RemovalTarget(state)]_vars


\* ------------------------------------------------------ claim C34
\* C34: the auto-close timer of a commit (of a PR creation) closes only the
\* overlay invocation that scheduled it: when it fires while another overlay is
\* open -- an overlay that is not the commit (PR-create) overlay in phase done --
\* it neither closes nor resets that overlay.
C34_AutoCloseOwnOverlay ==
    [][/\ (/\ Consumed("timer", "commit-close")
           /\ state.overlay # NULL
           /\ ~(state.overlay = "commit" /\ state.commitPhase = "done"))
             => /\ state'.overlay = state.overlay
                /\ state'.commitPhase = state.commitPhase
                /\ state'.commitTicketId = state.commitTicketId
       /\ (/\ Consumed("timer", "pr-close")
           /\ state.overlay # NULL
           /\ ~(state.overlay = "pr-create" /\ state.prCreatePhase = "done"))
             => /\ state'.overlay = state.overlay
                /\ state'.prCreatePhase = state.prCreatePhase
                /\ state'.prCreateTicketId = state.prCreateTicketId]_vars


\* ------------------------------------------------------ claim C35
\* C35: a commit overlay in phase confirm-stage has submitted no message, so a
\* git commit or git push that settles then belongs to an invocation that was
\* cancelled: its completion changes neither the phase nor the error of the
\* overlay, which leaves confirm-stage only by its own staging.
C35_StaleCommitIgnored ==
    [][(/\ Consumed("commit", "commit") \/ Consumed("commit", "push")
        /\ state.overlay = "commit"
        /\ state.commitPhase = "confirm-stage")
          => /\ state'.overlay = "commit"
             /\ state'.commitPhase = "confirm-stage"
             /\ state'.commitError = state.commitError]_vars


\* ------------------------------------------------------ claim C36
\* the marker names a ticket whose removal is in flight
MarkerNamesRemoval ==
    /\ state.deletingForTicket # NULL
    /\ \E t \in BagToSet(tasks) : t.k = "delete" /\ t.t = state.deletingForTicket

\* C36: whenever a worktree removal is in flight, deletingForTicket is non-null
\* and names a ticket whose removal is in flight; in particular, when the
\* removals of two different tickets overlap and one of them completes, the
\* marker still names the other.
C36_DeletingMarker ==
    [][/\ Spawned("delete", "remove") => MarkerNamesRemoval'
       /\ (/\ Consumed("delete", "remove")
           /\ C7_DeleteOnce
           /\ InFlight("delete")' > 0) => MarkerNamesRemoval']_vars


\* ------------------------------------------------------ claim C37
\* The create-and-launch workflow inside tmux, where no launch leaves the
\* dashboard; every external call of the workflow eventually settles.
CreateInit == Init /\ inTmux = TRUE

CreateNext ==
    \/ Input({ k \in Keys : k.special = "escape"
                            \/ k.input \in {"w", "p", "i", "y", "n", "j", "x"} })
    \/ TimerFire
    \/ RefreshDone(Data({DataBoth, DataOnly2}))
    \/ CreateFetchDone
    \/ CreateWorktreeDone
    \/ CreateInitOutput
    \/ CreateInitDone

CreateSpec ==
    /\ CreateInit
    /\ [][CreateNext]_vars
    /\ WF_vars(CreateFetchDone)
    /\ WF_vars(CreateWorktreeDone)
    /\ WF_vars(CreateInitDone)

\* C37: every create-and-launch workflow that dispatched CREATION_START
\* eventually dispatches CREATION_DONE or CREATION_ERROR: creatingForTicket
\* eventually returns to null.
C37_CreationEnds == (state.creatingForTicket # NULL) ~> (state.creatingForTicket = NULL)


\* ------------------------------------------------------ claim C38
\* C38: in every reachable state creationLogs is empty whenever
\* creatingForTicket is null, and a creation starts from an empty log: no
\* CREATION_LOG is applied after the CREATION_DONE or CREATION_ERROR of its
\* workflow.
C38_LogsOnlyWhileCreating ==
    [][/\ state.creatingForTicket = NULL => state.creationLogs = 0
       /\ state'.creatingForTicket = NULL => state'.creationLogs = 0
       /\ Spawned("create", "fetch") => state.creationLogs = 0]_vars

\* a creation that logged has ended with an error; its log is gone
C38_Witness ==
    /\ state.creatingForTicket = NULL
    /\ state.creationError # NULL
    /\ state.creationLogs = 0
    /\ InFlight("create") = 0
    /\ ~exited


\* ------------------------------------------- init script output (C39)
\* The script writes characters to stdout and stderr: "a" is one byte in UTF-8,
\* "eacute" (e with an acute accent) is the two bytes C3 A9. The streams hand the bytes over in chunks of any
\* size; "?" is U+FFFD, the replacement character.
MaxOutput == 2
ScriptTexts == SeqsUpTo({"a", "eacute"}, 0, MaxOutput)

RECURSIVE encodeUtf8(_)
encodeUtf8(text) ==
    IF text = <<>> THEN <<>>
    ELSE (IF Head(text) = "eacute" THEN <<"C3", "A9">> ELSE <<Head(text)>>) \o encodeUtf8(Tail(text))

\* a decoder that carries an unfinished character over to the next chunk:
\* the characters whose last byte lies in this chunk (half: the stream stopped
\* after C3)
RECURSIVE streamDecode(_, _)
streamDecode(half, chunk) ==
    IF chunk = <<>> THEN <<>>
    ELSE IF half THEN <<"eacute">> \o streamDecode(FALSE, Tail(chunk))
    ELSE IF Head(chunk) = "C3" THEN streamDecode(TRUE, Tail(chunk))
    ELSE <<Head(chunk)>> \o streamDecode(FALSE, Tail(chunk))

\* data.toString(): the chunk decoded on its own; a sequence cut off at either
\* end of the chunk becomes U+FFFD
RECURSIVE toString(_)
toString(chunk) ==
    IF chunk = <<>> THEN <<>>
    ELSE IF Head(chunk) = "C3" /\ Len(chunk) >= 2 /\ chunk[2] = "A9"
    THEN <<"eacute">> \o toString(Tail(Tail(chunk)))
    ELSE IF Head(chunk) \in {"C3", "A9"} THEN <<"?">> \o toString(Tail(chunk))
    ELSE <<Head(chunk)>> \o toString(Tail(chunk))

\* output.slice(lastLen)
slice(output, lastLen) == SubSeq(output, lastLen + 1, Len(output))

\* child.stdout / child.stderr "data": output += data.toString();
\* onOutput(output): delta = output.slice(lastLen); if (delta) dispatch
\* CREATION_LOG, which appends delta to creationLogs; lastLen = output.length
onOutput(r, stream, n) ==
    LET bytes == IF stream = "stdout" THEN r.stdout ELSE r.stderr
        chunk == SubSeq(bytes, 1, n)
        rest == SubSeq(bytes, n + 1, Len(bytes))
        half == IF stream = "stdout" THEN r.halfOut ELSE r.halfErr
        output == r.output \o toString(chunk)
        delta == slice(output, r.lastLen)
    IN  [r EXCEPT !.stdout = IF stream = "stdout" THEN rest ELSE @,
                  !.stderr = IF stream = "stderr" THEN rest ELSE @,
                  !.halfOut = IF stream = "stdout" THEN chunk[n] = "C3" ELSE @,
                  !.halfErr = IF stream = "stderr" THEN chunk[n] = "C3" ELSE @,
                  !.written = @ \o streamDecode(half, chunk),
                  !.output = output,
                  !.lastLen = Len(output),
                  !.creationLogs = IF delta # <<>> THEN @ \o delta ELSE @]

OutputInit ==
    /\ state = initialState
    /\ tasks = EmptyBag
    /\ repoRootRef = TRUE
    /\ inTmux = FALSE
    /\ exited = FALSE
    /\ draggingRef = FALSE
    /\ termSize = [columns |-> 80, rows |-> 24]
    /\ leftWidth = initialLeftWidth(termSize.columns)
    /\ terminal = mounted
    /\ \E out \in ScriptTexts, err \in ScriptTexts :
          lay = [pc |-> "init.sh", stdout |-> encodeUtf8(out), stderr |-> encodeUtf8(err),
                 halfOut |-> FALSE, halfErr |-> FALSE, written |-> <<>>,
                 output |-> <<>>, lastLen |-> 0, creationLogs |-> <<>>]

\* a chunk of stdout or of stderr arrives
OutputData ==
    /\ lay.pc = "init.sh"
    /\ \/ \E n \in 1..Len(lay.stdout) : lay' = onOutput(lay, "stdout", n)
       \/ \E n \in 1..Len(lay.stderr) : lay' = onOutput(lay, "stderr", n)
    /\ UNCHANGED <<state, tasks, repoRootRef, inTmux, exited, draggingRef, leftWidth, termSize, terminal>>

OutputSpec == OutputInit /\ [][OutputData]_vars

\* ------------------------------------------------------ claim C39
\* the dispatched chunks concatenate to the cumulative output string: nothing
\* of it is dispatched twice and nothing is skipped
DeltasMatchOutput == lay.pc = "init.sh" => lay.creationLogs = lay.output

\* C39: while the init script runs, the log chunks dispatched as CREATION_LOG
\* concatenate to exactly what the script has written so far (the characters
\* whose bytes have arrived, in the order of arrival), for every order and size
\* of the stdout and stderr chunks.
C39_LogsAreTheOutput == lay.pc = "init.sh" => lay.creationLogs = lay.written


\* ------------------------------------------------------ claim C40
\* C40: refreshing is true whenever a non-initial refresh is in flight, and
\* false once every started refresh has completed.
C40_RefreshingFlag ==
    /\ (\E t \in Pending("refresh", "load") : ~t.flag) => state.refreshing
    /\ Count("refresh", "load") = 0 => ~state.refreshing

====
